---- MODULE Spec2Model ----
(***************************************************************************)
(* Evergreen multi agents: the tool-calling conversation loops, their      *)
(* dispatchers, the customer / roadmap store and the ingestion pipeline.   *)
(*                                                                         *)
(* Text is modelled as atomic strings; a formatted message is the sequence *)
(* of its pieces (template text and interpolated values).  The connection  *)
(* argument (database_url) of the store functions is deployment wiring and *)
(* is modelled only where the orchestrator routes it to a sub-agent.       *)
(***************************************************************************)
EXTENDS Integers, Sequences, FiniteSets, TLC

(***************************************************************************)
(* Bounds of the model.                                                    *)
(***************************************************************************)
MaxCalls == 2          \* longest finite script of function-call replies
MaxSubCalls == 1       \* the same for the model of a routed sub-agent
MaxCustomerSeq == 2    \* highest value the customers id sequence may reach
MaxTime == 4           \* last instant of the store clock
MaxFeedLen == 2        \* longest feed the feed source returns
MaxRuns == 2           \* ingestion runs started
LongFeedLen == 12      \* items of the feed that is longer than a batch
MaxResults == 3        \* largest n_results of a search

CountCap == MaxCalls + 2   \* exchange / dispatch counters saturate here

(***************************************************************************)
(* Values.                                                                 *)
(***************************************************************************)
ABSENT == "<absent>"   \* a key the argument mapping does not hold (string valued)
NOINT == -1            \* a key the argument mapping does not hold (integer valued)
NULL == "<NULL>"       \* Python None / SQL NULL
CHECK == "CHECK "      \* the success mark U+2713 and the blank after it
CROSS == "CROSS "      \* the failure mark U+2717 and the blank after it

Min(a, b) == IF a < b THEN a ELSE b

\* str() of the small integers that appear in messages
IntStr(i) ==
  CASE i = 0 -> "0" [] i = 1 -> "1" [] i = 2 -> "2" [] i = 3 -> "3"
    [] i = 4 -> "4" [] i = 5 -> "5" [] OTHER -> "n"

\* the characters of the strings that are matched by substring
Chars(s) ==
  CASE s = "Acme" -> <<"A", "c", "m", "e">>
    [] s = "Bolt" -> <<"B", "o", "l", "t">>
    [] s = "ac" -> <<"a", "c">>
    [] s = "zz" -> <<"z", "z">>
    [] s = "Teams" -> <<"T", "e", "a", "m", "s">>
    [] s = "teams" -> <<"t", "e", "a", "m", "s">>
    [] s = "Web" -> <<"W", "e", "b">>
    [] s = "web" -> <<"w", "e", "b">>
    [] s = "Outlook" -> <<"O", "u", "t", "l", "o", "o", "k">>
    [] s = "iOS" -> <<"i", "O", "S">>
    [] s = "ios" -> <<"i", "o", "s">>
    [] OTHER -> <<>>

LowerChar(c) ==
  CASE c = "A" -> "a" [] c = "B" -> "b" [] c = "T" -> "t" [] c = "W" -> "w"
    [] c = "O" -> "o" [] c = "S" -> "s"
    [] OTHER -> c

Lower(cs) == [i \in 1..Len(cs) |-> LowerChar(cs[i])]

\* SQL: text ILIKE '%pat%'
ILikeContains(text, pat) ==
  LET t == Lower(Chars(text))
      p == Lower(Chars(pat))
  IN \E i \in 0..(Len(t) - Len(p)) : SubSeq(t, i + 1, i + Len(p)) = p

(***************************************************************************)
(* The argument mapping of a function call.  Every key the tools know is   *)
(* a field; a key the model did not supply holds ABSENT / NOINT.  `extra`  *)
(* stands for a key no tool declares.                                      *)
(***************************************************************************)
NoArgs ==
  [name |-> ABSENT, description |-> ABSENT, products_used |-> ABSENT,
   priority |-> ABSENT, notes |-> ABSENT, customer_id |-> NOINT,
   customer_name |-> ABSENT, query |-> ABSENT, num_results |-> NOINT,
   database_url |-> ABSENT, extra |-> ABSENT]

StrKeys == {"name", "description", "products_used", "priority", "notes",
            "customer_name", "query", "database_url", "extra"}
IntKeys == {"customer_id", "num_results"}

\* the keys of the mapping: dict(func_call.args).keys()
Keys(args) ==
  {k \in StrKeys : args[k] # ABSENT} \cup {k \in IntKeys : args[k] # NOINT}

\* f(**args): TypeError when a key is no parameter of f or a required one is missing
BindFails(args, required, allowed) ==
  \/ Keys(args) \ allowed # {}
  \/ required \ Keys(args) # {}

\* Python truthiness of an optional string / integer argument
TruthyStr(v) == v # ABSENT /\ v # NULL /\ v # ""
TruthyInt(v) == v # NOINT /\ v # 0

(***************************************************************************)
(* What a dispatcher or handler call yields: a string, or an exception,    *)
(* together with the customers table and id sequence it leaves behind.     *)
(***************************************************************************)
Returns(result, cs, seq) ==
  [raised |-> FALSE, result |-> result, customers |-> cs, customer_seq |-> seq]
Raises(exc, cs, seq) ==
  [raised |-> TRUE, result |-> <<exc>>, customers |-> cs, customer_seq |-> seq]

(***************************************************************************)
(* Customers table (backend/src/database.py).  A row is keyed by its id;   *)
(* the columns created_at / updated_at are not modelled.                   *)
(***************************************************************************)
CustomerNames == {"Acme", "Bolt"}

NameRank(n) == CASE n = "Acme" -> 1 [] n = "Bolt" -> 2 [] OTHER -> 3

\* a Customer whose priority has no default
CustomerNoDefault(name, description, products_used, priority, notes) ==
  [name |-> name, description |-> description, products_used |-> products_used,
   priority |-> IF priority = ABSENT THEN NULL ELSE priority,
   notes |-> IF notes = ABSENT THEN NULL ELSE notes]

\* class Customer: the fields a caller gives; priority defaults to "medium"
Customer(name, description, products_used, priority, notes) ==
  [name |-> name, description |-> description, products_used |-> products_used,
   priority |-> IF priority = ABSENT THEN "medium" ELSE priority,
   notes |-> IF notes = ABSENT THEN NULL ELSE notes]

\* an INSERT into a table without its UNIQUE(name) constraint
add_customer_unchecked(customer, cs, seq) ==
  [raised |-> FALSE, result |-> <<IntStr(seq + 1)>>,
   customers |-> [i \in DOMAIN cs \cup {seq + 1} |->
                     IF i = seq + 1 THEN customer ELSE cs[i]],
   customer_seq |-> seq + 1]

\* INSERT INTO customers ... RETURNING id: the sequence advances even when the
\* UNIQUE(name) constraint rejects the row
add_customer(customer, cs, seq) ==
  IF \E i \in DOMAIN cs : cs[i].name = customer.name
    THEN Raises("IntegrityError", cs, seq + 1)
    ELSE [raised |-> FALSE, result |-> <<IntStr(seq + 1)>>,
          customers |-> [i \in DOMAIN cs \cup {seq + 1} |->
                            IF i = seq + 1 THEN customer ELSE cs[i]],
          customer_seq |-> seq + 1]

\* SELECT * FROM customers WHERE id = %s: the row, or NULL
get_customer(customer_id, cs) ==
  IF customer_id \in DOMAIN cs THEN {customer_id} ELSE {0}

\* SELECT * FROM customers WHERE name ILIKE %name% ; fetchone(): any matching row
get_customer_by_name(name, cs) ==
  LET hits == {i \in DOMAIN cs : ILikeContains(cs[i].name, name)}
  IN IF hits = {} THEN {0} ELSE hits

\* SELECT * FROM customers ORDER BY name
RECURSIVE SortedByName(_, _)
SortedByName(ids, cs) ==
  IF ids = {} THEN <<>>
  ELSE LET first == CHOOSE i \in ids :
                      \A j \in ids : NameRank(cs[i].name) <= NameRank(cs[j].name)
       IN <<first>> \o SortedByName(ids \ {first}, cs)

list_customers(cs) == SortedByName(DOMAIN cs, cs)

\* an UPDATE that writes every column, NULL where the caller gave nothing
update_customer_overwriting(customer_id, updates, cs, seq) ==
  IF customer_id \notin DOMAIN cs
    THEN Returns(<<"False">>, cs, seq)
    ELSE Returns(<<"True">>,
           [cs EXCEPT ![customer_id] =
              [k \in DOMAIN cs[customer_id] |->
                 IF updates[k] # ABSENT THEN updates[k] ELSE NULL]],
           seq)

\* UPDATE customers SET k = v, ... WHERE id = %s ; `updates` holds ABSENT for
\* the columns that are not set
update_customer(customer_id, updates, cs, seq) ==
  IF customer_id \notin DOMAIN cs
    THEN Returns(<<"False">>, cs, seq)
  ELSE IF /\ updates.name # ABSENT
          /\ \E j \in DOMAIN cs : j # customer_id /\ cs[j].name = updates.name
    THEN Raises("IntegrityError", cs, seq)
  ELSE Returns(<<"True">>,
         [cs EXCEPT ![customer_id] =
            [k \in DOMAIN cs[customer_id] |->
               IF updates[k] # ABSENT THEN updates[k] ELSE cs[customer_id][k]]],
         seq)

\* DELETE FROM customers WHERE id = %s
delete_customer(customer_id, cs, seq) ==
  IF customer_id \in DOMAIN cs
    THEN Returns(<<"True">>, [i \in DOMAIN cs \ {customer_id} |-> cs[i]], seq)
    ELSE Returns(<<"False">>, cs, seq)

(***************************************************************************)
(* Customer tools (backend/src/agents/customer_agent.py).  Each yields the *)
(* set of outcomes the call can have.                                      *)
(***************************************************************************)
add_customer_tool(args, cs, seq) ==
  LET r == add_customer(Customer(args.name, args.description, args.products_used,
                                 args.priority, args.notes), cs, seq)
  IN IF r.raised
       THEN {Returns(<<CROSS, "Error adding customer: ", r.result[1]>>,
                     r.customers, r.customer_seq)}
       ELSE {Returns(<<CHECK, "Customer '", args.name,
                       "' added successfully with ID ", r.result[1], ".">>,
                     r.customers, r.customer_seq)}

CustomerDetails(i, cs) ==
  <<"**Customer: ", cs[i].name, "**", "- ID: ", IntStr(i),
    "- Description: ", cs[i].description,
    "- Products Used: ", cs[i].products_used,
    "- Priority: ", cs[i].priority,
    "- Notes: ", IF cs[i].notes = NULL \/ cs[i].notes = "" THEN "None" ELSE cs[i].notes>>

get_customer_tool(args, cs, seq) ==
  IF TruthyInt(args.customer_id) \/ TruthyStr(args.customer_name)
    THEN {IF i = 0 THEN Returns(<<"Customer not found.">>, cs, seq)
                   ELSE Returns(CustomerDetails(i, cs), cs, seq) :
          i \in IF TruthyInt(args.customer_id)
                  THEN get_customer(args.customer_id, cs)
                  ELSE get_customer_by_name(args.customer_name, cs)}
    ELSE {Returns(<<"Please provide either customer_id or customer_name.">>, cs, seq)}

RECURSIVE CustomerLines(_, _)
CustomerLines(ids, cs) ==
  IF ids = <<>> THEN <<>>
  ELSE <<"- [", IntStr(Head(ids)), "] ", cs[Head(ids)].name,
         cs[Head(ids)].priority, cs[Head(ids)].products_used>>
       \o CustomerLines(Tail(ids), cs)

list_customers_tool(cs, seq) ==
  IF list_customers(cs) = <<>>
    THEN {Returns(<<"No customers in the database.">>, cs, seq)}
    ELSE {Returns(<<"**Customers:**">> \o CustomerLines(list_customers(cs), cs), cs, seq)}

update_customer_tool(args, cs, seq) ==
  LET updates == [k \in {"name", "description", "products_used", "priority", "notes"} |->
                    IF TruthyStr(args[k]) THEN args[k] ELSE ABSENT]
      r == update_customer(args.customer_id, updates, cs, seq)
  IN IF \A k \in DOMAIN updates : updates[k] = ABSENT
       THEN {Returns(<<"No updates provided.">>, cs, seq)}
     ELSE IF r.raised THEN {r}
     ELSE IF r.result = <<"True">>
       THEN {Returns(<<CHECK, "Customer ", IntStr(args.customer_id),
                       " updated successfully.">>, r.customers, r.customer_seq)}
       ELSE {Returns(<<CROSS, "Customer ", IntStr(args.customer_id),
                       " not found or update failed.">>, r.customers, r.customer_seq)}

delete_customer_tool(args, cs, seq) ==
  LET r == delete_customer(args.customer_id, cs, seq)
  IN IF r.result = <<"True">>
       THEN {Returns(<<CHECK, "Customer ", IntStr(args.customer_id),
                       " deleted successfully.">>, r.customers, r.customer_seq)}
       ELSE {Returns(<<CROSS, "Customer ", IntStr(args.customer_id), " not found.">>,
                     r.customers, r.customer_seq)}

\* CUSTOMER_TOOLS: the names declared to the model
CUSTOMER_TOOLS ==
  {"add_customer", "get_customer", "list_customers", "update_customer", "delete_customer"}

\* the sentinel every dispatcher returns for a name it has no branch for
UnknownFunction(function_name) == <<"Unknown function: ", function_name>>

AddParams == {"name", "description", "products_used", "priority", "notes"}
UpdateParams == {"customer_id", "name", "description", "products_used", "priority", "notes"}

\* a dispatcher that looks the handler up in a table and fails on a missing name
customer_handle_tool_call_lookup(function_name, args, cs, seq) ==
  IF function_name \in CUSTOMER_TOOLS
    THEN IF function_name = "list_customers" THEN list_customers_tool(cs, seq)
         ELSE IF function_name = "get_customer" THEN get_customer_tool(args, cs, seq)
         ELSE {Raises("TypeError", cs, seq)}
    ELSE {Raises("KeyError", cs, seq)}

\* customer_agent.handle_tool_call
customer_handle_tool_call(function_name, args, cs, seq) ==
  IF function_name = "add_customer" THEN
    IF BindFails(args, {"name", "description", "products_used"}, AddParams)
      THEN {Raises("TypeError", cs, seq)}
      ELSE add_customer_tool(args, cs, seq)
  ELSE IF function_name = "get_customer" THEN
    IF BindFails(args, {}, {"customer_id", "customer_name"})
      THEN {Raises("TypeError", cs, seq)}
      ELSE get_customer_tool(args, cs, seq)
  ELSE IF function_name = "list_customers" THEN
    list_customers_tool(cs, seq)
  ELSE IF function_name = "update_customer" THEN
    IF BindFails(args, {"customer_id"}, UpdateParams)
      THEN {Raises("TypeError", cs, seq)}
      ELSE update_customer_tool(args, cs, seq)
  ELSE IF function_name = "delete_customer" THEN
    IF BindFails(args, {"customer_id"}, {"customer_id"})
      THEN {Raises("TypeError", cs, seq)}
      ELSE delete_customer_tool(args, cs, seq)
  ELSE {Returns(UnknownFunction(function_name), cs, seq)}

(***************************************************************************)
(* Roadmap items: the raw feed item, the parsed RoadmapItem, the stored    *)
(* row and its embedding.                                                   *)
(***************************************************************************)
NOTIME == -1   \* no watermark (Python None); instants are 0..MaxTime

\* vectors the embedding provider may return (integer norms: exact cosines)
Vectors == {<<1, 0>>, <<0, 1>>, <<3, 4>>}

Dot(a, b) == a[1] * b[1] + a[2] * b[2]
Norm(v) == CHOOSE n \in 0..10 : n * n = Dot(v, v)
\* 25 * (1 - cos(a, b)): the pgvector operator <=> , scaled to an integer
CosDist25(a, b) == 25 - (25 * Dot(a, b)) \div (Norm(a) * Norm(b))

RECURSIVE JoinSeq(_, _)
\* sep.join(xs), as the sequence of its pieces
JoinSeq(xs, sep) ==
  IF xs = <<>> THEN <<>>
  ELSE IF Len(xs) = 1 THEN xs
  ELSE <<Head(xs), sep>> \o JoinSeq(Tail(xs), sep)

\* tag group -> [t.get("tagName", "") for t in tags_container.get(group, [])]
TagNames(raw_item, group) ==
  IF "tagsContainer" \in raw_item.missing \/ group \in raw_item.missing
    THEN <<>> ELSE raw_item[group]

TagGroups == {"products", "platforms", "cloudInstances", "releasePhase"}

\* the exception that leaves parse_roadmap_item(raw_item), NULL when it returns:
\* raw_item.get("tagsContainer", {}) is None for a null value, and None has no
\* get; tags_container.get(group, []) is None for a null group, and None is
\* not iterable
parse_error(raw_item) ==
  IF "tagsContainer" \in raw_item.null THEN "AttributeError"
  ELSE IF /\ "tagsContainer" \notin raw_item.missing
          /\ \E g \in TagGroups : g \in raw_item.null
    THEN "TypeError"
  ELSE NULL

\* a parse that gives an item without id no id at all
parse_roadmap_item_without_default(raw_item) ==
  [id |-> IF "id" \in raw_item.missing THEN NOINT ELSE raw_item.id,
   title |-> IF "title" \in raw_item.missing THEN "" ELSE raw_item.title,
   description |-> IF "description" \in raw_item.missing THEN "" ELSE raw_item.description,
   status |-> IF "status" \in raw_item.missing THEN "" ELSE raw_item.status,
   public_disclosure_date |->
     IF "publicDisclosureAvailabilityDate" \in raw_item.missing
       THEN NULL ELSE raw_item.publicDisclosureAvailabilityDate,
   products |-> TagNames(raw_item, "products"),
   platforms |-> TagNames(raw_item, "platforms"),
   cloud_instances |-> TagNames(raw_item, "cloudInstances"),
   release_phase |-> IF TagNames(raw_item, "releasePhase") # <<>>
                       THEN TagNames(raw_item, "releasePhase")[1] ELSE NULL]

\* ingestion.parse_roadmap_item
parse_roadmap_item(raw_item) ==
  [id |-> IF "id" \in raw_item.missing THEN 0 ELSE raw_item.id,
   title |-> IF "title" \in raw_item.missing THEN "" ELSE raw_item.title,
   description |-> IF "description" \in raw_item.missing THEN "" ELSE raw_item.description,
   status |-> IF "status" \in raw_item.missing THEN "" ELSE raw_item.status,
   public_disclosure_date |->
     IF "publicDisclosureAvailabilityDate" \in raw_item.missing
       THEN NULL ELSE raw_item.publicDisclosureAvailabilityDate,
   products |-> TagNames(raw_item, "products"),
   platforms |-> TagNames(raw_item, "platforms"),
   cloud_instances |-> TagNames(raw_item, "cloudInstances"),
   release_phase |-> IF TagNames(raw_item, "releasePhase") # <<>>
                       THEN TagNames(raw_item, "releasePhase")[1] ELSE NULL]

\* a document without its products and platforms lines
BuildDocumentShort(item) ==
  <<item.title, "\n\n", item.description, "\n\nStatus: ", item.status>>

\* the text upsert_roadmap_items embeds and stores
BuildDocument(item) ==
  <<item.title, "\n\n", item.description, "\n\nStatus: ", item.status, "\nProducts: ">>
  \o JoinSeq(item.products, ", ") \o <<"\nPlatforms: ">> \o JoinSeq(item.platforms, ", ")

\* an upsert that leaves updated_at of a row that exists as it is
UpsertRowStale(items, item, embedding, ts) ==
  [i \in DOMAIN items \cup {item.id} |->
     IF i # item.id THEN items[i]
     ELSE [title |-> item.title, description |-> item.description,
           status |-> item.status, release_date |-> item.public_disclosure_date,
           products |-> JoinSeq(item.products, ","),
           platforms |-> JoinSeq(item.platforms, ","),
           cloud_instances |-> JoinSeq(item.cloud_instances, ","),
           release_phase |-> item.release_phase,
           document |-> BuildDocument(item),
           embedding |-> embedding,
           created_at |-> IF i \in DOMAIN items THEN items[i].created_at ELSE ts,
           updated_at |-> IF i \in DOMAIN items THEN items[i].updated_at ELSE ts]]

\* an upsert that leaves a row that exists as it is (ON CONFLICT DO NOTHING)
UpsertRowKeeping(items, item, embedding, ts) ==
  IF item.id \in DOMAIN items THEN items
  ELSE [i \in DOMAIN items \cup {item.id} |->
          IF i # item.id THEN items[i]
          ELSE [title |-> item.title, description |-> item.description,
                status |-> item.status, release_date |-> item.public_disclosure_date,
                products |-> JoinSeq(item.products, ","),
                platforms |-> JoinSeq(item.platforms, ","),
                cloud_instances |-> JoinSeq(item.cloud_instances, ","),
                release_phase |-> item.release_phase,
                document |-> BuildDocument(item),
                embedding |-> embedding,
                created_at |-> ts, updated_at |-> ts]]

\* the row INSERT ... ON CONFLICT (id) DO UPDATE leaves for `item`; created_at
\* is kept on conflict, updated_at is the statement's CURRENT_TIMESTAMP
UpsertRow(items, item, embedding, ts) ==
  [i \in DOMAIN items \cup {item.id} |->
     IF i # item.id THEN items[i]
     ELSE [title |-> item.title, description |-> item.description,
           status |-> item.status, release_date |-> item.public_disclosure_date,
           products |-> JoinSeq(item.products, ","),
           platforms |-> JoinSeq(item.platforms, ","),
           cloud_instances |-> JoinSeq(item.cloud_instances, ","),
           release_phase |-> item.release_phase,
           document |-> BuildDocument(item),
           embedding |-> embedding,
           created_at |-> IF i \in DOMAIN items THEN items[i].created_at ELSE ts,
           updated_at |-> ts]]

\* the characters of a stored text column
RECURSIVE TextChars(_)
TextChars(pieces) ==
  IF pieces = <<>> THEN <<>>
  ELSE (IF Head(pieces) = "," THEN <<",">> ELSE Chars(Head(pieces)))
       \o TextChars(Tail(pieces))

\* column ILIKE '%term%'
ColumnILike(pieces, term) ==
  LET t == Lower(TextChars(pieces))
      p == Lower(Chars(term))
  IN \E i \in 0..(Len(t) - Len(p)) : SubSeq(t, i + 1, i + Len(p)) = p

\* the sequences over the ids of S without repetition
RECURSIVE Orderings(_)
Orderings(S) ==
  IF S = {} THEN {<<>>}
  ELSE UNION {{<<x>> \o rest : rest \in Orderings(S \ {x})} : x \in S}

\* a search without its ORDER BY: the rows come in any order
search_roadmap_unordered(query_embedding, n_results, filter_products, items) ==
  LET cand == {i \in DOMAIN items :
                 filter_products = {} \/
                 \E p \in filter_products : ColumnILike(items[i].products, p)}
  IN {SubSeq(o, 1, Min(n_results, Len(o))) : o \in Orderings(cand)}

\* database.search_roadmap: WHERE (products ILIKE ...) ORDER BY embedding <=> q LIMIT n;
\* rows at equal distance come in any order.  Yields the possible row-id sequences.
search_roadmap(query_embedding, n_results, filter_products, items) ==
  LET cand == {i \in DOMAIN items :
                 filter_products = {} \/
                 \E p \in filter_products : ColumnILike(items[i].products, p)}
      dist(i) == CosDist25(items[i].embedding, query_embedding)
      sorted == {o \in Orderings(cand) :
                   \A a, b \in 1..Len(o) : a < b => dist(o[a]) <= dist(o[b])}
  IN {SubSeq(o, 1, Min(n_results, Len(o))) : o \in sorted}

\* the list database.search_roadmap builds from the rows: id and "distance"
SearchItems(ids, query_embedding, items) ==
  [k \in 1..Len(ids) |->
     [id |-> ids[k], distance |-> CosDist25(items[ids[k]].embedding, query_embedding),
      relevance |-> NOINT]]

\* the results db_mcp search_roadmap dumps: id and "relevance": 1 - row["distance"]
McpResults(ids, query_embedding, items) ==
  [k \in 1..Len(ids) |->
     [id |-> ids[k], distance |-> NOINT,
      relevance |-> 25 - CosDist25(items[ids[k]].embedding, query_embedding)]]

\* db_mcp server.search_roadmap(query, n_results): what it returns, as
\* [rows, text]; the embedding call may raise, which the tool reports as text
mcp_search_roadmap(query_embedding, n_results, items) ==
  {[rows |-> <<>>, text |-> "Error searching roadmap: "]} \cup
  {IF ids = <<>>
     THEN [rows |-> <<>>, text |-> "No matching roadmap items found."]
     ELSE [rows |-> McpResults(ids, query_embedding, items), text |-> "json"] :
   ids \in search_roadmap(query_embedding, n_results, {}, items)}

\* one entry of a search result: the metadata the tools print
Metadata(i, items) ==
  <<IntStr(i), items[i].title, items[i].status>>

RECURSIVE FormatResults(_, _)
FormatResults(ids, items) ==
  IF ids = <<>> THEN <<>>
  ELSE Metadata(Head(ids), items) \o FormatResults(Tail(ids), items)

(***************************************************************************)
(* The db_mcp server tools (packages/db_mcp/server.py).  A call yields the *)
(* string it returns, with the two tables as it leaves them.               *)
(***************************************************************************)
McpReturns(result, items, cs) == [result |-> result, items |-> items, customers |-> cs]

\* the arguments of a db_mcp tool call
McpArgs(query, n_results, item_id, status) ==
  [query |-> query, n_results |-> n_results, item_id |-> item_id, status |-> status,
   limit |-> 10, offset |-> 0]

\* a get_roadmap_item that removes the row it reads
mcp_get_roadmap_item_removing(item_id, items, cs) ==
  {McpReturns(<<"Roadmap item with ID ", IntStr(item_id), " not found.">>,
              [i \in DOMAIN items \ {item_id} |-> items[i]], cs)}

\* get_roadmap_item(item_id): the row without its embedding, or not found
mcp_get_roadmap_item(item_id, items, cs) ==
  {McpReturns(<<"Error retrieving roadmap item: ">>, items, cs),
   IF item_id \in DOMAIN items
     THEN McpReturns(<<IntStr(item_id), items[item_id].title, items[item_id].status>>,
                     items, cs)
     ELSE McpReturns(<<"Roadmap item with ID ", IntStr(item_id), " not found.">>,
                     items, cs)}

\* list_roadmap_items(status, limit, offset): ... [WHERE status = %s]
\* ORDER BY updated_at DESC LIMIT %s OFFSET %s
mcp_list_roadmap_items(status, limit, offset, items, cs) ==
  LET cand == {i \in DOMAIN items : status \in {NULL, ""} \/ items[i].status = status}
      sorted == {o \in Orderings(cand) :
                   \A a, b \in 1..Len(o) :
                     a < b => items[o[a]].updated_at >= items[o[b]].updated_at}
  IN {McpReturns(<<"Error listing roadmap items: ">>, items, cs)} \cup
     {McpReturns(FormatResults(SubSeq(o, offset + 1, Min(offset + limit, Len(o))), items),
                 items, cs) : o \in sorted}

\* get_roadmap_stats(): COUNT(*) and the count of the rows of each status
mcp_get_roadmap_stats(items, cs) ==
  {McpReturns(<<"Error getting roadmap stats: ">>, items, cs),
   McpReturns(<<"total_items", IntStr(Cardinality(DOMAIN items)), "Rolling out",
                IntStr(Cardinality({i \in DOMAIN items : items[i].status = "Rolling out"}))>>,
              items, cs)}

\* the tools the server registers with @mcp.tool()
MCP_TOOLS == {"search_roadmap", "get_roadmap_item", "list_roadmap_items", "get_roadmap_stats"}

\* a call of a registered tool by its name
mcp_call_tool(name, args, items, cs) ==
  CASE name = "search_roadmap" ->
         UNION {{McpReturns(IF o.text = "json"
                              THEN FormatResults([k \in 1..Len(o.rows) |-> o.rows[k].id], items)
                              ELSE <<o.text>>, items, cs) :
                 o \in mcp_search_roadmap(q, args.n_results, items)} : q \in Vectors}
    [] name = "get_roadmap_item" -> mcp_get_roadmap_item(args.item_id, items, cs)
    [] name = "list_roadmap_items" ->
         mcp_list_roadmap_items(args.status, args.limit, args.offset, items, cs)
    [] OTHER -> mcp_get_roadmap_stats(items, cs)

\* no db_mcp tool has been called
NoMcpCall == [name |-> "", args |-> McpArgs(ABSENT, NOINT, NOINT, NULL), result |-> <<>>]

\* the calls a client of the server makes
McpCalls ==
  {[name |-> "search_roadmap", args |-> McpArgs("q", 1, NOINT, NULL)],
   [name |-> "get_roadmap_item", args |-> McpArgs(ABSENT, NOINT, 1, NULL)],
   [name |-> "get_roadmap_item", args |-> McpArgs(ABSENT, NOINT, 5, NULL)],
   [name |-> "list_roadmap_items", args |-> McpArgs(ABSENT, NOINT, NOINT, NULL)],
   [name |-> "list_roadmap_items", args |-> McpArgs(ABSENT, NOINT, NOINT, "Rolling out")],
   [name |-> "get_roadmap_stats", args |-> McpArgs(ABSENT, NOINT, NOINT, NULL)]}

(***************************************************************************)
(* Roadmap tools (packages/backend/src/agents/roadmap_agent.py).           *)
(***************************************************************************)
search_roadmap_tool(query, database_url, num_results, items, cs, seq) ==
  {Raises("EmbeddingError", cs, seq)} \cup
  {IF ids = <<>>
     THEN Returns(<<"No roadmap items found matching your query.">>, cs, seq)
     ELSE Returns(FormatResults(ids, items), cs, seq) :
   ids \in UNION {search_roadmap(q, num_results, {}, items) : q \in Vectors}}

get_roadmap_statistics(items, cs, seq) ==
  {Returns(<<"The roadmap database contains ", IntStr(Cardinality(DOMAIN items)),
             " items.">>, cs, seq)}

ROADMAP_TOOLS == {"search_roadmap", "get_roadmap_statistics"}

\* roadmap_agent.handle_tool_call
roadmap_handle_tool_call(function_name, args, database_url, items, cs, seq) ==
  IF function_name = "search_roadmap" THEN
    search_roadmap_tool(IF args.query = ABSENT THEN "" ELSE args.query,
                        database_url,
                        IF args.num_results = NOINT THEN 5 ELSE args.num_results,
                        items, cs, seq)
  ELSE IF function_name = "get_roadmap_statistics" THEN
    get_roadmap_statistics(items, cs, seq)
  ELSE {Returns(UnknownFunction(function_name), cs, seq)}

(***************************************************************************)
(* Impact tools (backend/src/agents/impact_agent.py).                      *)
(***************************************************************************)
\* [p.strip() for p in products_used.split(",")]
SplitProducts(products_used) ==
  CASE products_used = "Teams,Web" -> <<"Teams", "Web">>
    [] OTHER -> <<products_used>>

RECURSIVE SearchEach(_, _, _)
\* search_roadmap(product, n_results = n) for each product in turn: the possible
\* concatenated result lists
SearchEach(products, n, items) ==
  IF products = <<>> THEN {<<>>}
  ELSE {first \o rest :
          first \in UNION {search_roadmap(q, n, {}, items) : q \in Vectors},
          rest \in SearchEach(Tail(products), n, items)}

analyze_customer_impact(args, items, cs, seq) ==
  LET found == IF TruthyInt(args.customer_id) THEN get_customer(args.customer_id, cs)
               ELSE IF TruthyStr(args.customer_name)
                 THEN get_customer_by_name(args.customer_name, cs)
               ELSE {0}
  IN UNION {
       IF c = 0
         THEN {Returns(<<"Customer not found. Please provide a valid customer ID or name.">>,
                       cs, seq)}
         ELSE {Raises("EmbeddingError", cs, seq)} \cup
              {IF ids = <<>>
                 THEN Returns(<<"No upcoming changes found affecting ", cs[c].name>>, cs, seq)
                 ELSE Returns(<<"## Impact Analysis for ", cs[c].name, cs[c].products_used,
                                cs[c].priority>> \o FormatResults(ids, items), cs, seq) :
               ids \in SearchEach(SplitProducts(cs[c].products_used), 3, items)}
       : c \in found}

RECURSIVE ProductsOf(_, _)
ProductsOf(ids, cs) ==
  IF ids = {} THEN {}
  ELSE LET c == CHOOSE i \in ids : TRUE
           ps == SplitProducts(cs[c].products_used)
       IN {ps[k] : k \in 1..Len(ps)} \cup ProductsOf(ids \ {c}, cs)

get_high_impact_changes(items, cs, seq) ==
  LET high == {i \in DOMAIN cs : cs[i].priority = "high"}
      products == IF ProductsOf(high, cs) # {} THEN ProductsOf(high, cs)
                  ELSE ProductsOf(DOMAIN cs, cs)
  IN IF DOMAIN cs = {}
       THEN {Returns(<<"No customers in the database to analyze.">>, cs, seq)}
       ELSE {Raises("EmbeddingError", cs, seq)} \cup
            {Returns(<<"## High Impact Changes Overview">> \o FormatResults(ids, items),
                     cs, seq) :
             ids \in UNION {SearchEach(SubSeq(o, 1, Min(5, Len(o))), 2, items) :
                            o \in Orderings(products)}}

IMPACT_TOOLS == {"analyze_customer_impact", "get_high_impact_changes"}

\* impact_agent.handle_tool_call
impact_handle_tool_call(function_name, args, items, cs, seq) ==
  IF function_name = "analyze_customer_impact" THEN
    IF BindFails(args, {}, {"customer_id", "customer_name"})
      THEN {Raises("TypeError", cs, seq)}
      ELSE analyze_customer_impact(args, items, cs, seq)
  ELSE IF function_name = "get_high_impact_changes" THEN
    get_high_impact_changes(items, cs, seq)
  ELSE {Returns(UnknownFunction(function_name), cs, seq)}

(***************************************************************************)
(* Orchestrator dispatchers.  A routing branch starts a sub-agent's        *)
(* conversation loop; the dispatcher yields which branch it takes and with *)
(* which arguments.                                                        *)
(***************************************************************************)
Route(agent, query, database_url) ==
  [kind |-> "route", agent |-> agent, query |-> query,
   database_url |-> database_url, result |-> <<>>]
Refresh == [kind |-> "refresh", agent |-> "", query |-> "",
            database_url |-> ABSENT, result |-> <<>>]
Plain(result) == [kind |-> "plain", agent |-> "", query |-> "",
                  database_url |-> ABSENT, result |-> result]

\* function_args.get(key, "")
GetOr(args, key) == IF args[key] = ABSENT THEN "" ELSE args[key]

\* src/agents/orchestrator.handle_tool_call
orchestrator_handle_tool_call(function_name, args) ==
  IF function_name = "route_to_roadmap_agent" THEN
    Route("roadmap", GetOr(args, "query"), ABSENT)
  ELSE IF function_name = "route_to_customer_agent" THEN
    Route("customer", GetOr(args, "query"), ABSENT)
  ELSE IF function_name = "route_to_impact_agent" THEN
    Route("impact", GetOr(args, "query"), ABSENT)
  ELSE IF function_name = "refresh_roadmap_data" THEN Refresh
  ELSE Plain(UnknownFunction(function_name))

\* ORCHESTRATOR_TOOLS of src/agents/orchestrator.py
ORCHESTRATOR_TOOLS ==
  {"route_to_roadmap_agent", "route_to_customer_agent", "route_to_impact_agent",
   "refresh_roadmap_data"}

\* packages/backend/src/agents/orchestrator.handle_tool_call
pkg_orchestrator_handle_tool_call(function_name, args) ==
  IF function_name = "route_to_roadmap_agent"
     \/ function_name = "roadmap_agent_declaration" THEN
    Route("roadmap", GetOr(args, "query"), GetOr(args, "database_url"))
  ELSE IF function_name = "route_to_customer_agent" THEN
    Route("customer", GetOr(args, "query"), ABSENT)
  ELSE IF function_name = "route_to_impact_agent" THEN
    Route("impact", GetOr(args, "query"), ABSENT)
  ELSE IF function_name = "refresh_roadmap_data" THEN
    Plain(<<"Roadmap data is automatically refreshed daily by the ingestion service. No manual refresh needed.">>)
  ELSE Plain(UnknownFunction(function_name))

\* the declarations OrchestratorAgent.__init__ of packages/backend gives the model
PKG_ORCHESTRATOR_TOOLS == {"route_to_roadmap_agent"}

(***************************************************************************)
(* Feed timestamps.  An instant is an integer of seconds 0..MaxTime; the   *)
(* feed carries it as text.                                                *)
(***************************************************************************)
\* isoformat of the instant t, without zone
Iso(t) ==
  CASE t = 0 -> "2025-01-01T00:00:00" [] t = 1 -> "2025-01-01T00:00:01"
    [] t = 2 -> "2025-01-01T00:00:02" [] t = 3 -> "2025-01-01T00:00:03"
    [] t = 4 -> "2025-01-01T00:00:04" [] t = 5 -> "2025-01-01T00:00:05"
    [] t = 6 -> "2025-01-01T00:00:06" [] OTHER -> "2025-01-01T00:00:07"

\* the same with the UTC designator the feed uses
IsoZ(t) ==
  CASE t = 0 -> "2025-01-01T00:00:00Z" [] t = 1 -> "2025-01-01T00:00:01Z"
    [] t = 2 -> "2025-01-01T00:00:02Z" [] t = 3 -> "2025-01-01T00:00:03Z"
    [] t = 4 -> "2025-01-01T00:00:04Z" [] t = 5 -> "2025-01-01T00:00:05Z"
    [] t = 6 -> "2025-01-01T00:00:06Z" [] OTHER -> "2025-01-01T00:00:07Z"

BadDate == "not-a-date"

Instants == 0..(MaxTime + 1)

\* datetime.fromisoformat(s.replace("Z", "+00:00")) followed by
\* replace(tzinfo=None): the wall-clock instant, or NOTIME for ValueError
ParseTimestamp(s) ==
  IF \E t \in Instants : s = Iso(t) THEN CHOOSE t \in Instants : s = Iso(t)
  ELSE IF \E t \in Instants : s = IsoZ(t) THEN CHOOSE t \in Instants : s = IsoZ(t)
  ELSE NOTIME

\* a timestamp value that is a JSON number, not a string
NonString == "<number>"

\* item.get(key): NULL (None) for a key that is absent or holds null
GetValue(item, key) ==
  IF key \in item.missing \/ key \in item.null THEN NULL ELSE item[key]

\* item.get("modified") or item.get("created"): NULL when neither is truthy
ModifiedStr(item) ==
  IF TruthyStr(GetValue(item, "modified")) THEN item.modified
  ELSE IF TruthyStr(GetValue(item, "created")) THEN item.created
  ELSE NULL

\* modified_str.replace("Z", "+00:00") on a value that is no string: the
\* AttributeError no except clause of filter_new_items names
TimestampRaises(item) == ModifiedStr(item) = NonString

\* a filter that also keeps an item modified exactly at the watermark
IsNewItemInclusive(item, since) ==
  /\ ModifiedStr(item) # NULL
  /\ \/ ParseTimestamp(ModifiedStr(item)) = NOTIME
     \/ ParseTimestamp(ModifiedStr(item)) >= since

\* a filter that keeps an item without timestamp to be safe
IsNewItemKeepingUndated(item, since) ==
  \/ ModifiedStr(item) = NULL
  \/ ParseTimestamp(ModifiedStr(item)) = NOTIME
  \/ ParseTimestamp(ModifiedStr(item)) > since

\* the body of the loop of filter_new_items: is `item` appended to new_items
IsNewItem(item, since) ==
  /\ ModifiedStr(item) # NULL
  /\ \/ ParseTimestamp(ModifiedStr(item)) = NOTIME
     \/ ParseTimestamp(ModifiedStr(item)) > since

RECURSIVE NewItems(_, _)
NewItems(raw_items, since) ==
  IF raw_items = <<>> THEN <<>>
  ELSE (IF IsNewItem(Head(raw_items), since) THEN <<Head(raw_items)>> ELSE <<>>)
       \o NewItems(Tail(raw_items), since)

\* ingestion.filter_new_items
filter_new_items(raw_items, since) ==
  IF since = NOTIME THEN raw_items ELSE NewItems(raw_items, since)

\* the exception that leaves filter_new_items(raw_items, since), NULL when it
\* returns: with since = None no item is looked at
filter_error(raw_items, since) ==
  IF since # NOTIME /\ \E i \in DOMAIN raw_items : TimestampRaises(raw_items[i])
    THEN "AttributeError" ELSE NULL

\* a raw feed item: `missing` names the keys the JSON object does not hold,
\* `null` the keys it holds with the value null
RawItem(id, title, modified, created, missing) ==
  [id |-> id, title |-> title, description |-> "desc", status |-> "Rolling out",
   publicDisclosureAvailabilityDate |-> "June CY2025",
   modified |-> modified, created |-> created,
   products |-> <<"Teams">>, platforms |-> <<"Web">>,
   cloudInstances |-> <<>>, releasePhase |-> <<"GA">>,
   missing |-> missing, null |-> {}]

\* [parse_roadmap_item(item) for item in items]
ParseAll(raw_items) == [i \in 1..Len(raw_items) |-> parse_roadmap_item(raw_items[i])]

(***************************************************************************)
(* upsert_roadmap_items (pipeline/src/database.py): one transaction for    *)
(* the whole list, committed after the last item.  Each item takes one     *)
(* document-mode embedding call, which may fail.                           *)
(***************************************************************************)
\* title of the items of the long feed
BulkTitle == "bulk"

\* get_embedding(text): the vectors the provider may answer with; the items
\* of the long feed embed to one vector, every other text to any vector
get_embedding(text) == IF text[1] = BulkTitle THEN {<<0, 1>>} ELSE Vectors

RECURSIVE UpsertAll(_, _, _)
\* the loop when every embedding call succeeds: the store it builds and the
\* embeddings it got, item by item
UpsertAll(items, parsed, ts) ==
  IF parsed = <<>> THEN {[items |-> items, embeddings |-> <<>>]}
  ELSE UNION {{[items |-> rest.items, embeddings |-> <<e>> \o rest.embeddings] :
                 rest \in UpsertAll(UpsertRow(items, Head(parsed), e, ts),
                                    Tail(parsed), ts)} :
              e \in get_embedding(BuildDocument(Head(parsed)))}

\* an upsert that commits after every item: an exception leaves the items
\* before the failed one in the store
upsert_roadmap_items_autocommit(parsed, items, ts) ==
  {[raised |-> FALSE, count |-> Len(parsed), items |-> u.items,
    embed_calls |-> Len(parsed), embeddings |-> u.embeddings] :
     u \in UpsertAll(items, parsed, ts)}
  \cup
  UNION {{[raised |-> TRUE, count |-> 0, items |-> u.items, embed_calls |-> k,
           embeddings |-> <<>>] :
            u \in UpsertAll(items, SubSeq(parsed, 1, k - 1), ts)} :
         k \in 1..Len(parsed)}

\* outcomes of one call: committed store and count, or an exception before
\* the commit (nothing of the batch persists); embed_calls counts the calls
\* made, the failed one included
upsert_roadmap_items(parsed, items, ts) ==
  {[raised |-> FALSE, count |-> Len(parsed), items |-> u.items,
    embed_calls |-> Len(parsed), embeddings |-> u.embeddings] :
     u \in UpsertAll(items, parsed, ts)}
  \cup
  {[raised |-> TRUE, count |-> 0, items |-> items, embed_calls |-> k,
    embeddings |-> <<>>] :
     k \in 1..Len(parsed)}

RECURSIVE LogUpserts(_, _, _)
\* the latest upsert of each id after the items `parsed` went in with `embeddings`
\* (none of them when the call raised)
LogUpserts(log, parsed, embeddings) ==
  IF parsed = <<>> \/ embeddings = <<>> THEN log
  ELSE LogUpserts([i \in DOMAIN log \cup {Head(parsed).id} |->
                     IF i = Head(parsed).id
                       THEN [item |-> Head(parsed), embedding |-> Head(embeddings)]
                       ELSE log[i]],
                  Tail(parsed), Tail(embeddings))

(***************************************************************************)
(* ingest_roadmap (src/ingestion.py), as refresh_roadmap_data calls it:    *)
(* fetch, parse everything, upsert in one call.                            *)
(***************************************************************************)
\* feeds the feed source may return to a conversation's refresh
RefreshFeeds == {<<RawItem(1, "v2", IsoZ(1), Iso(0), {})>>}

\* the dict ingest_roadmap returns, or the exception that leaves it
ingest_roadmap(items, ts) ==
  {[raised |-> FALSE, success |-> FALSE, message |-> "No items fetched",
    count |-> 0, items |-> items, parsed |-> <<>>, embeddings |-> <<>>]}
  \cup
  UNION {{[raised |-> u.raised, success |-> ~u.raised,
           message |-> "Successfully ingested", count |-> u.count, items |-> u.items,
           parsed |-> ParseAll(feed), embeddings |-> u.embeddings] :
          u \in upsert_roadmap_items(ParseAll(feed), items, ts)} : feed \in RefreshFeeds}

\* src/agents/orchestrator.refresh_roadmap_data: the string made of the dict
RefreshResult(r) ==
  IF r.success
    THEN <<CHECK, "Roadmap data refreshed. ", IntStr(r.count), " items ingested.">>
    ELSE <<CROSS, "Failed to refresh roadmap data: ", r.message>>

(***************************************************************************)
(* The conversational model.  A reply is a list of content parts; a part   *)
(* is a text or a function call.  `calls_left` is the number of replies,   *)
(* the current one included, that still begin with a function call (-1:    *)
(* every reply does); the text of reply k is AnswerText(k).                *)
(***************************************************************************)
ALWAYS == -1
Scripts == (0..MaxCalls) \cup {ALWAYS}

AnswerText(k) ==
  CASE k = 1 -> "answer 1" [] k = 2 -> "answer 2" [] k = 3 -> "answer 3"
    [] k = 4 -> "answer 4" [] OTHER -> "answer n"

TextPart(t) == [kind |-> "text", text |-> t, name |-> "", args |-> NoArgs]
CallPart(name, args) == [kind |-> "call", text |-> "", name |-> name, args |-> args]

NoSuchTool == "no_such_tool"
MissingId == 9   \* a customer id no row has

\* a customer given without priority and notes, and one given with both
AcmeArgs == [NoArgs EXCEPT !.name = "Acme", !.description = "d", !.products_used = "Teams"]
BoltArgs == [NoArgs EXCEPT !.name = "Bolt", !.description = "d",
                           !.products_used = "Teams,Web", !.priority = "high",
                           !.notes = "vip"]

CustomerCalls(seq) ==
  (IF seq < MaxCustomerSeq
     THEN {CallPart("add_customer", AcmeArgs), CallPart("add_customer", BoltArgs)}
     ELSE {})
  \cup
  {CallPart("add_customer", [NoArgs EXCEPT !.name = "Acme"]),
   CallPart("get_customer", [NoArgs EXCEPT !.customer_id = 1]),
   CallPart("get_customer", [NoArgs EXCEPT !.customer_name = "ac"]),
   CallPart("get_customer", NoArgs),
   CallPart("get_customer", [NoArgs EXCEPT !.customer_id = 1, !.extra = "x"]),
   CallPart("list_customers", NoArgs),
   CallPart("update_customer", [NoArgs EXCEPT !.customer_id = 1, !.name = "Bolt"]),
   CallPart("update_customer", [NoArgs EXCEPT !.customer_id = 1, !.priority = "low"]),
   CallPart("update_customer", [NoArgs EXCEPT !.customer_id = 1]),
   CallPart("update_customer", [NoArgs EXCEPT !.name = "Acme"]),
   CallPart("update_customer", [NoArgs EXCEPT !.customer_id = MissingId, !.notes = "n"]),
   CallPart("delete_customer", [NoArgs EXCEPT !.customer_id = 1]),
   CallPart("delete_customer", [NoArgs EXCEPT !.customer_id = MissingId]),
   CallPart("delete_customer", NoArgs),
   CallPart(NoSuchTool, NoArgs),
   CallPart("search_roadmap", [NoArgs EXCEPT !.query = "Teams"])}

RoadmapCalls ==
  {CallPart("search_roadmap", [NoArgs EXCEPT !.query = "Teams"]),
   CallPart("search_roadmap", [NoArgs EXCEPT !.query = "Teams", !.num_results = 1]),
   CallPart("search_roadmap", NoArgs),
   CallPart("get_roadmap_statistics", NoArgs),
   CallPart(NoSuchTool, NoArgs),
   CallPart("list_customers", NoArgs)}

ImpactCalls ==
  {CallPart("analyze_customer_impact", [NoArgs EXCEPT !.customer_id = 1]),
   CallPart("analyze_customer_impact", [NoArgs EXCEPT !.customer_name = "ac"]),
   CallPart("analyze_customer_impact", NoArgs),
   CallPart("analyze_customer_impact", [NoArgs EXCEPT !.customer_id = 1, !.extra = "x"]),
   CallPart("get_high_impact_changes", NoArgs),
   CallPart(NoSuchTool, NoArgs),
   CallPart("delete_customer", [NoArgs EXCEPT !.customer_id = 1])}

OrchestratorCalls ==
  {CallPart(n, [NoArgs EXCEPT !.query = "q"]) :
     n \in {"route_to_roadmap_agent", "route_to_customer_agent", "route_to_impact_agent"}}
  \cup
  {CallPart("route_to_roadmap_agent", [NoArgs EXCEPT !.query = "q", !.database_url = "db_model"]),
   CallPart("roadmap_agent_declaration", [NoArgs EXCEPT !.query = "q"]),
   CallPart("refresh_roadmap_data", NoArgs),
   CallPart(NoSuchTool, NoArgs),
   CallPart("add_customer", [NoArgs EXCEPT !.name = "Acme"])}

DomainAgents == {"customer", "roadmap", "impact"}
OrchestratorAgents == {"orchestrator", "orchestrator_pkg"}
Agents == DomainAgents \cup OrchestratorAgents

CallsOf(agent, seq) ==
  CASE agent = "customer" -> CustomerCalls(seq)
    [] agent = "roadmap" -> RoadmapCalls
    [] agent = "impact" -> ImpactCalls
    [] OTHER -> OrchestratorCalls

\* the calls the model of a routed sub-agent may make
SubCallsOf(agent, seq) ==
  CASE agent = "customer" ->
         (IF seq < MaxCustomerSeq THEN {CallPart("add_customer", AcmeArgs)} ELSE {})
         \cup {CallPart("update_customer", [NoArgs EXCEPT !.customer_id = 1, !.name = "Bolt"]),
               CallPart("list_customers", NoArgs),
               CallPart(NoSuchTool, NoArgs)}
    [] agent = "roadmap" ->
         {CallPart("search_roadmap", [NoArgs EXCEPT !.query = "Teams", !.num_results = 1]),
          CallPart(NoSuchTool, NoArgs)}
    [] OTHER ->
         {CallPart("analyze_customer_impact", [NoArgs EXCEPT !.customer_id = 1]),
          CallPart(NoSuchTool, NoArgs)}

\* the call a reply may carry in a second part
SecondCall(agent) ==
  CASE agent = "customer" -> CallPart("delete_customer", [NoArgs EXCEPT !.customer_id = 1])
    [] agent = "roadmap" -> CallPart("get_roadmap_statistics", NoArgs)
    [] agent = "impact" -> CallPart("get_high_impact_changes", NoArgs)
    [] OTHER -> CallPart("route_to_customer_agent", [NoArgs EXCEPT !.query = "q"])

\* response.text: the text parts of the reply, None when there is none
Reply(parts, text) == [parts |-> parts, text |-> text]

\* the replies the model may give as reply number k with `left` call-replies to go
Replies(agent, left, k, seq) ==
  IF left = 0
    THEN {Reply(<<>>, NULL),
          Reply(<<TextPart(AnswerText(k))>>, AnswerText(k)),
          Reply(<<TextPart(AnswerText(k)), SecondCall(agent)>>, AnswerText(k))}
    ELSE {Reply(<<c>>, NULL) : c \in CallsOf(agent, seq)}
         \cup {Reply(<<SecondCall(agent), SecondCall(agent)>>, NULL),
               Reply(<<SecondCall(agent), TextPart("aside")>>, "aside")}

\* the replies of the model of a routed sub-agent
SubReplies(agent, left, k, seq) ==
  IF left = 0
    THEN {Reply(<<TextPart(AnswerText(k)), SecondCall(agent)>>, AnswerText(k))}
    ELSE {Reply(<<c>>, NULL) : c \in SubCallsOf(agent, seq)}

(***************************************************************************)
(* State.                                                                  *)
(***************************************************************************)
VARIABLES
  customers,       \* customers table: id -> row
  customer_seq,    \* last value of the customers id sequence
  roadmap_items,   \* roadmap_items table: id -> row
  now,             \* the store's CURRENT_TIMESTAMP
  stack,           \* the running query() calls, the routed sub-agent's on top
  outcome,         \* how the outermost query() ended
  last_dispatch,   \* the most recent handle_tool_call and what it gave
  last_return,     \* the most recent query() that returned
  runs,            \* the ingestion runs
  filter_call,     \* a call of filter_new_items: its arguments and its result
  upsert_log,      \* the latest upsert of each roadmap item id: the item and its embedding
  search_call,     \* a call of search_roadmap: its arguments and its result
  last_mcp,        \* the most recent db_mcp tool call and what it returned
  added,           \* the customers added and neither updated nor deleted since: id -> the values given
  updaters         \* concurrent update_customer operations: each one's position, the row lock, the commit order

vars == <<customers, customer_seq, roadmap_items, now, stack, outcome,
          last_dispatch, last_return, runs, filter_call,
          upsert_log,
          search_call,
          last_mcp,
          added,
          updaters>>

(***************************************************************************)
(* The conversation loop: query() of CustomerAgent, RoadmapAgent,          *)
(* ImpactAgent and the two OrchestratorAgents.                             *)
(***************************************************************************)
\* a loop that looks at the last part of the reply
InspectedIndexLast(parts) == Len(parts)

\* part = response.candidates[0].content.parts[0]
InspectedIndex(parts) == 1

\* a loop that goes round only while every part of the reply is a function call
LoopDispatchesAllCalls(f) ==
  /\ f.response.parts # <<>>
  /\ \A i \in 1..Len(f.response.parts) : f.response.parts[i].kind = "call"

\* a loop with a maximum of one tool round
LoopDispatchesBounded(f) ==
  /\ f.response.parts # <<>>
  /\ f.response.parts[1].kind = "call"
  /\ f.dispatches < 1

\* the loop goes round: `while parts:` and the inspected part has a function_call
LoopDispatches(f) ==
  /\ f.response.parts # <<>>
  /\ f.response.parts[InspectedIndex(f.response.parts)].kind = "call"

\* a loop that hands the model's arguments on as they are
InjectNothing(args, database_url) == args

\* func_args["database_url"] = self.database_url
InjectDatabaseUrl(args, database_url) == [args EXCEPT !.database_url = database_url]

\* a query() right after its first chat.send_message(user_message)
NewFrames(agent, database_url, n, seq, routed) ==
  {[agent |-> agent, database_url |-> database_url, script_n |-> n, calls_left |-> n,
    routed |-> routed, response |-> r, sends |-> 1, dispatches |-> 0] :
   r \in IF routed THEN SubReplies(agent, n, n + 1, seq)
                   ELSE Replies(agent, n, n + 1, seq)}

\* the frame after chat.send_message({"function_response": ...}) got its reply
AfterSend(f, seq) ==
  LET left == IF f.calls_left > 0 THEN f.calls_left - 1 ELSE f.calls_left
  IN {[f EXCEPT !.response = r, !.calls_left = left,
                !.sends = Min(@ + 1, CountCap),
                !.dispatches = Min(@ + 1, CountCap)] :
      r \in IF f.routed THEN SubReplies(f.agent, left, f.script_n + 1, seq)
                        ELSE Replies(f.agent, left, f.script_n + 1, seq)}

Idle == [kind |-> "idle", text |-> NULL]
Running == [kind |-> "running", text |-> NULL]
Returned(text) == [kind |-> "returned", text |-> text]
Raised(exc) == [kind |-> "raised", text |-> exc]

\* the tool result goes to the model: the next reply arrives, or the call fails
\* and the exception leaves every query() on the stack
Continue(below, f, seq) ==
  {[stack |-> Append(below, g), outcome |-> Running] : g \in AfterSend(f, seq)}
  \cup {[stack |-> <<>>, outcome |-> Raised("ModelError")]}

\* no message went to the model
NoMessage == [name |-> "", result |-> <<>>]

\* a function_response whose name is not the call's
FunctionResponseUnnamed(func_name, tool_result) ==
  [name |-> "function", result |-> tool_result]

\* {"function_response": {"name": func_name, "response": {"result": tool_result}}}
FunctionResponse(func_name, tool_result) == [name |-> func_name, result |-> tool_result]

NoDispatch ==
  [kind |-> "none", agent |-> "", name |-> "", args |-> NoArgs, index |-> 0,
   reply |-> <<>>, raised |-> FALSE, result |-> <<>>, store_unchanged |-> TRUE,
   database_url |-> ABSENT, sent |-> NoMessage]

NoReturn ==
  [valid |-> FALSE, agent |-> "", script_n |-> 0, sends |-> 0, dispatches |-> 0,
   text |-> NULL, parts |-> <<>>]

\* no call of filter_new_items is under way
NoFilterCall == [raw_items |-> <<>>, since |-> NOTIME, returned |-> FALSE,
                 new_items |-> <<>>, raised |-> NULL, parsed |-> FALSE,
                 parsed_items |-> <<>>]

\* no call of search_roadmap is under way
NoSearchCall ==
  [tool |-> "none", query_embedding |-> <<>>, n_results |-> 0, filter_products |-> {},
   returned |-> FALSE, raised |-> FALSE, rows |-> <<>>, text |-> NULL]

Top == stack[Len(stack)]
Below == SubSeq(stack, 1, Len(stack) - 1)

\* the dispatcher of a domain agent
handle_tool_call(agent, function_name, args, database_url, items, cs, seq) ==
  CASE agent = "customer" -> customer_handle_tool_call(function_name, args, cs, seq)
    [] agent = "roadmap" ->
         roadmap_handle_tool_call(function_name, args, database_url, items, cs, seq)
    [] OTHER -> impact_handle_tool_call(function_name, args, items, cs, seq)

\* the dispatcher of an orchestrator, on the arguments its loop hands it
orchestrator_dispatch(f, part) ==
  IF f.agent = "orchestrator"
    THEN orchestrator_handle_tool_call(part.name, part.args)
    ELSE pkg_orchestrator_handle_tool_call(
           part.name, InjectDatabaseUrl(part.args, f.database_url))

\* a request arrives: query(user_message) sends it to the model
StartQuery ==
  /\ outcome.kind = "idle"
  /\ stack = <<>>
  /\ \E agent \in Agents, n \in Scripts :
       \/ \E f \in NewFrames(agent,
                             IF agent \in {"roadmap", "orchestrator_pkg"}
                               THEN "db_main" ELSE ABSENT,
                             n, customer_seq, FALSE) :
            /\ stack' = <<f>>
            /\ outcome' = Running
       \/ /\ stack' = <<>>
          /\ outcome' = Raised("ModelError")
  /\ UNCHANGED <<customers, customer_seq, roadmap_items, now, last_dispatch,
                 last_return, runs,
                 filter_call, upsert_log, search_call, last_mcp, added, updaters>>

\* the record of the customers added: an add_customer that stored a row enters
\* the values the caller gave under the new id, a dispatch of update_customer
\* or delete_customer removes the id it names
AddedAfter(agent, part, stored, id, log) ==
  IF agent = "customer" /\ part.name = "add_customer" /\ stored
    THEN [i \in DOMAIN log \cup {id} |->
            IF i = id
              THEN [name |-> part.args.name, description |-> part.args.description,
                    products_used |-> part.args.products_used,
                    priority |-> part.args.priority, notes |-> part.args.notes]
              ELSE log[i]]
  ELSE IF agent = "customer" /\ part.name \in {"update_customer", "delete_customer"}
    THEN [i \in DOMAIN log \ {part.args.customer_id} |-> log[i]]
  ELSE log

\* one round of a domain agent's loop: dispatch the inspected call, send the result
DispatchTool ==
  /\ stack # <<>>
  /\ Top.agent \in DomainAgents
  /\ LoopDispatches(Top)
  /\ LET i == InspectedIndex(Top.response.parts)
         part == Top.response.parts[i]
     IN \E o \in handle_tool_call(Top.agent, part.name, part.args, Top.database_url,
                                  roadmap_items, customers, customer_seq) :
          /\ customers' = o.customers
          /\ customer_seq' = o.customer_seq
          /\ added' = AddedAfter(Top.agent, part, o.customers # customers,
                                 o.customer_seq, added)
          /\ last_dispatch' =
               [kind |-> "tool", agent |-> Top.agent, name |-> part.name,
                args |-> part.args, index |-> i, reply |-> Top.response.parts,
                raised |-> o.raised,
                result |-> o.result, store_unchanged |-> (o.customers = customers),
                database_url |-> Top.database_url,
                sent |-> IF o.raised THEN NoMessage
                         ELSE FunctionResponse(part.name, o.result)]
          /\ IF o.raised
               THEN /\ stack' = <<>>
                    /\ outcome' = Raised(o.result[1])
               ELSE \E c \in Continue(Below, Top, o.customer_seq) :
                      /\ stack' = c.stack
                      /\ outcome' = c.outcome
  /\ last_return' = NoReturn
  /\ UNCHANGED <<roadmap_items, now, runs,
                 filter_call, upsert_log, search_call, last_mcp, updaters>>

\* one round of an orchestrator's loop: route to a sub-agent, refresh, or answer
DispatchRoute ==
  /\ stack # <<>>
  /\ Top.agent \in OrchestratorAgents
  /\ LoopDispatches(Top)
  /\ LET i == InspectedIndex(Top.response.parts)
         part == Top.response.parts[i]
         d == orchestrator_dispatch(Top, part)
         log(kind, raised, result, unchanged) ==
           [kind |-> kind, agent |-> Top.agent, name |-> part.name,
            args |-> part.args, index |-> i, reply |-> Top.response.parts,
            raised |-> raised,
            result |-> result, store_unchanged |-> unchanged,
            database_url |-> d.database_url,
            sent |-> IF kind = "tool" /\ ~raised
                       THEN FunctionResponse(part.name, result) ELSE NoMessage]
     IN \/ /\ d.kind = "route"
           /\ \/ \E n \in 0..MaxSubCalls :
                   \E f \in NewFrames(d.agent, d.database_url, n, customer_seq, TRUE) :
                     /\ stack' = Append(stack, f)
                     /\ outcome' = Running
              \/ /\ stack' = <<>>
                 /\ outcome' = Raised("ModelError")
           /\ last_dispatch' = log("route", FALSE, <<>>, TRUE)
           /\ UNCHANGED <<roadmap_items, upsert_log>>
        \/ /\ d.kind = "plain"
           /\ last_dispatch' = log("tool", FALSE, d.result, TRUE)
           /\ \E c \in Continue(Below, Top, customer_seq) :
                /\ stack' = c.stack
                /\ outcome' = c.outcome
           /\ UNCHANGED <<roadmap_items, upsert_log>>
        \/ /\ d.kind = "refresh"
           /\ \E r \in ingest_roadmap(roadmap_items, now) :
                /\ roadmap_items' = r.items
                /\ upsert_log' = LogUpserts(upsert_log, r.parsed, r.embeddings)
                /\ last_dispatch' =
                     log("tool", r.raised,
                         IF r.raised THEN <<"EmbeddingError">> ELSE RefreshResult(r),
                         r.items = roadmap_items)
                /\ IF r.raised
                     THEN /\ stack' = <<>>
                          /\ outcome' = Raised("EmbeddingError")
                     ELSE \E c \in Continue(Below, Top, customer_seq) :
                            /\ stack' = c.stack
                            /\ outcome' = c.outcome
  /\ last_return' = NoReturn
  /\ UNCHANGED <<customers, customer_seq, now, runs, filter_call, search_call, last_mcp, added, updaters>>

\* the loop is left: query() returns response.text, to the caller or, for a
\* routed sub-agent, to the orchestrator's loop, which sends it to its model
ReturnText ==
  /\ stack # <<>>
  /\ ~LoopDispatches(Top)
  /\ last_return' =
       [valid |-> TRUE, agent |-> Top.agent, script_n |-> Top.script_n,
        sends |-> Top.sends, dispatches |-> Top.dispatches,
        text |-> Top.response.text, parts |-> Top.response.parts]
  /\ \/ /\ Len(stack) = 1
        /\ stack' = <<>>
        /\ outcome' = Returned(Top.response.text)
        /\ UNCHANGED last_dispatch
     \/ /\ Len(stack) > 1
        /\ LET parent == stack[Len(stack) - 1]
           IN /\ last_dispatch' =
                   [last_dispatch EXCEPT
                      !.kind = "routed", !.agent = parent.agent,
                      !.name = parent.response.parts[
                                 InspectedIndex(parent.response.parts)].name,
                      !.args = parent.response.parts[
                                 InspectedIndex(parent.response.parts)].args,
                      !.index = InspectedIndex(parent.response.parts),
                      !.reply = parent.response.parts,
                      !.raised = FALSE, !.result = <<Top.response.text>>,
                      !.store_unchanged = TRUE, !.database_url = Top.database_url,
                      !.sent = FunctionResponse(
                                 parent.response.parts[
                                   InspectedIndex(parent.response.parts)].name,
                                 <<Top.response.text>>)]
              /\ \E c \in Continue(SubSeq(stack, 1, Len(stack) - 2), parent, customer_seq) :
                   /\ stack' = c.stack
                   /\ outcome' = c.outcome
  /\ UNCHANGED <<customers, customer_seq, roadmap_items, now, runs,
                 filter_call, upsert_log, search_call, last_mcp, added, updaters>>

\* a client calls a tool of the db_mcp server once the request is over
McpTool ==
  /\ stack = <<>>
  /\ outcome.kind # "idle"
  /\ \E call \in McpCalls :
       \E o \in mcp_call_tool(call.name, call.args, roadmap_items, customers) :
         /\ roadmap_items' = o.items
         /\ customers' = o.customers
         /\ last_mcp' = [name |-> call.name, args |-> call.args, result |-> o.result]
  /\ UNCHANGED <<customer_seq, now, stack, outcome, last_dispatch, last_return, runs,
                 filter_call, upsert_log, search_call, added, updaters>>

\* the items an earlier ingestion upserted and the embeddings they got
SeedItems ==
  <<parse_roadmap_item(RawItem(1, "v1", IsoZ(0), Iso(0), {})),
    parse_roadmap_item(RawItem(2, "v1", IsoZ(0), Iso(0), {}))>>
SeedEmbeddings == << <<1, 0>>, <<3, 4>> >>

\* a store an earlier ingestion left behind at the instant ts
SeedStoreAt(ts) ==
  UpsertRow(UpsertRow(<<>>, SeedItems[1], SeedEmbeddings[1], ts),
            SeedItems[2], SeedEmbeddings[2], ts)

\* the upserts that built it
SeedLog == LogUpserts(<<>>, SeedItems, SeedEmbeddings)

SeedStore == SeedStoreAt(0)

\* customers tables earlier requests left behind
\* no update_customer operation is under way: no operation, the row lock free,
\* nothing committed
NoUpdaters == [ops |-> <<>>, lock |-> 0, committed |-> <<>>, before |-> <<>>]

SeedCustomers ==
  LET one == add_customer(Customer("Acme", "d", "Teams", ABSENT, ABSENT), <<>>, 0)
      two == add_customer(Customer("Bolt", "d", "Teams,Web", "high", "vip"),
                          one.customers, one.customer_seq)
  IN {[customers |-> <<>>, customer_seq |-> 0],
      [customers |-> one.customers, customer_seq |-> one.customer_seq],
      [customers |-> two.customers, customer_seq |-> two.customer_seq]}

InitLoop ==
  /\ \E c \in SeedCustomers : customers = c.customers /\ customer_seq = c.customer_seq
  /\ roadmap_items \in {<<>>, SeedStore}
  /\ now = 1
  /\ stack = <<>>
  /\ outcome = Idle
  /\ last_dispatch = NoDispatch
  /\ last_return = NoReturn
  /\ runs = <<>>
  /\ filter_call = NoFilterCall
  /\ upsert_log = IF roadmap_items = <<>> THEN <<>> ELSE SeedLog
  /\ search_call = NoSearchCall
  /\ last_mcp = NoMcpCall
  /\ added = <<>>
  /\ updaters = NoUpdaters

NextLoop == StartQuery \/ DispatchTool \/ DispatchRoute \/ ReturnText \/ McpTool

SpecLoop == InitLoop /\ [][NextLoop]_vars

(***************************************************************************)
(* Properties of the conversation loop and the dispatchers.                *)
(***************************************************************************)
\* the inspected part of a reply carries a function call
FirstIsCall(parts) == parts # <<>> /\ parts[1].kind = "call"

\* C1: on each reply only the first part is inspected: every dispatch is of the
\* call in part 1 of the reply it answers, a query() that returned did so on a
\* reply whose first part is no call and returned that reply's text, and each
\* running loop has dispatched exactly one call per reply it got before the
\* current one (calls in later parts are never dispatched).
C1_FirstPartOnly ==
  /\ last_dispatch.kind # "none" =>
       /\ last_dispatch.index = 1
       /\ last_dispatch.reply[1] = CallPart(last_dispatch.name, last_dispatch.args)
  /\ last_return.valid => ~FirstIsCall(last_return.parts)
  /\ \A k \in 1..Len(stack) :
       stack[k].sends < CountCap => stack[k].dispatches = stack[k].sends - 1

\* a reply with two function calls was answered by one dispatch, of its first
C1_Witness ==
  /\ last_dispatch.kind = "tool"
  /\ Len(last_dispatch.reply) = 2
  /\ last_dispatch.reply[2].kind = "call"
  /\ stack # <<>>
  /\ Top.dispatches = 1
  /\ Top.sends = 2

\* C2: a query() against a model scripted to call a function in its first n
\* replies and to answer with text in reply n+1 returns after exactly n+1
\* exchanges and n dispatches, with the text of reply n+1.
C2_ScriptedExchanges ==
  last_return.valid =>
    /\ last_return.script_n # ALWAYS
    /\ last_return.sends = last_return.script_n + 1
    /\ last_return.dispatches = last_return.script_n
    /\ last_return.parts # <<>> => last_return.text = AnswerText(last_return.script_n + 1)

\* one tool call, then text: two exchanges
C2_Witness ==
  /\ last_return.valid
  /\ last_return.script_n = 1
  /\ last_return.sends = 2
  /\ last_return.dispatches = 1
  /\ last_return.text = AnswerText(2)

\* C3: the loop has no turn bound.  query() returns only on a reply whose first
\* part is no function call (or that has no parts), and on such a reply
\* returning is all it can do; on a reply whose first part is a call it can
\* only dispatch, however many rounds it has made; against a model whose
\* every reply begins with a call it never returns.
C3_NoTurnBound ==
  /\ last_return.valid =>
       /\ ~FirstIsCall(last_return.parts)
       /\ last_return.script_n # ALWAYS
  /\ stack # <<>> =>
       IF FirstIsCall(Top.response.parts)
         THEN ~ENABLED ReturnText /\ ENABLED (DispatchTool \/ DispatchRoute)
         ELSE ENABLED ReturnText /\ ~ENABLED (DispatchTool \/ DispatchRoute)
  /\ \A k \in 1..Len(stack) :
       stack[k].script_n = ALWAYS => FirstIsCall(stack[k].response.parts)

\* a loop that has made more rounds than any finite script and goes on
C3_Witness ==
  /\ stack # <<>>
  /\ Top.script_n = ALWAYS
  /\ Top.dispatches = CountCap
  /\ FirstIsCall(Top.response.parts)

\* the names each handle_tool_call has a branch for
RegisteredNames(agent) ==
  CASE agent = "customer" ->
         {"add_customer", "get_customer", "list_customers", "update_customer",
          "delete_customer"}
    [] agent = "roadmap" -> {"search_roadmap", "get_roadmap_statistics"}
    [] agent = "impact" -> {"analyze_customer_impact", "get_high_impact_changes"}
    [] agent = "orchestrator" ->
         {"route_to_roadmap_agent", "route_to_customer_agent", "route_to_impact_agent",
          "refresh_roadmap_data"}
    [] OTHER ->
         {"route_to_roadmap_agent", "roadmap_agent_declaration",
          "route_to_customer_agent", "route_to_impact_agent", "refresh_roadmap_data"}

\* C4: a dispatch of a name the dispatcher has no handler for returns exactly
\* "Unknown function: <name>", raises nothing, starts no handler or sub-agent
\* and leaves the store as it was.
C4_UnknownFunction ==
  (last_dispatch.kind # "none" /\ last_dispatch.name \notin RegisteredNames(last_dispatch.agent))
    => /\ last_dispatch.kind = "tool"
       /\ ~last_dispatch.raised
       /\ last_dispatch.result = <<"Unknown function: ", last_dispatch.name>>
       /\ last_dispatch.store_unchanged

\* the customer dispatcher got a name of another domain, over a store with rows
C4_Witness ==
  /\ last_dispatch.kind = "tool"
  /\ last_dispatch.agent = "customer"
  /\ last_dispatch.name = "search_roadmap"
  /\ last_dispatch.result = <<"Unknown function: ", "search_roadmap">>
  /\ customers # <<>>

\* C5: dispatch of a registered tool never raises on the arguments the model
\* supplies or on a store fault; a fault is reported as a string that begins
\* with the failure mark.
C5_DispatchNeverRaises ==
  last_dispatch.kind # "none" =>
    ~(last_dispatch.raised /\ last_dispatch.result[1] \in {"TypeError", "IntegrityError"})

\* C6: the database_url a Roadmap sub-agent routed by the packages/backend
\* orchestrator runs with is the orchestrator's own, whatever database_url the
\* model put into its function call.
C6_RoutedDatabaseUrl ==
  \A k \in 2..Len(stack) :
    (stack[k - 1].agent = "orchestrator_pkg" /\ stack[k].agent = "roadmap")
      => stack[k].database_url = stack[k - 1].database_url

\* the model asked for another database, the sub-agent runs on the configured one
C6_Witness ==
  /\ Len(stack) = 2
  /\ stack[1].agent = "orchestrator_pkg"
  /\ stack[2].agent = "roadmap"
  /\ stack[1].response.parts[1].args.database_url = "db_model"
  /\ stack[2].database_url = "db_main"

\* every tool name that occurs in the sources, and one that does not
NameUniverse ==
  CUSTOMER_TOOLS \cup ROADMAP_TOOLS \cup IMPACT_TOOLS \cup ORCHESTRATOR_TOOLS
  \cup PKG_ORCHESTRATOR_TOOLS \cup {"roadmap_agent_declaration", NoSuchTool}

\* the names declared to the model of an agent
DeclaredNames(agent) ==
  CASE agent = "customer" -> CUSTOMER_TOOLS
    [] agent = "roadmap" -> ROADMAP_TOOLS
    [] agent = "impact" -> IMPACT_TOOLS
    [] agent = "orchestrator" -> ORCHESTRATOR_TOOLS
    [] OTHER -> PKG_ORCHESTRATOR_TOOLS

\* the names the dispatcher of an agent does not answer with the sentinel
HandledNames(agent) ==
  {n \in NameUniverse :
     IF agent = "orchestrator" THEN orchestrator_handle_tool_call(n, NoArgs).kind # "plain"
                                    \/ orchestrator_handle_tool_call(n, NoArgs).result
                                         # UnknownFunction(n)
     ELSE IF agent = "orchestrator_pkg"
       THEN pkg_orchestrator_handle_tool_call(n, NoArgs).kind # "plain"
            \/ pkg_orchestrator_handle_tool_call(n, NoArgs).result # UnknownFunction(n)
     ELSE \E o \in handle_tool_call(agent, n, NoArgs, ABSENT, <<>>, <<>>, 0) :
            o.raised \/ o.result # UnknownFunction(n)}

\* C7: for the agent of every running loop, the names declared to the model
\* are exactly the names its dispatcher handles.
C7_DeclaredEqualsHandled ==
  \A k \in 1..Len(stack) : DeclaredNames(stack[k].agent) = HandledNames(stack[k].agent)

(***************************************************************************)
(* The ingestion worker: run_ingestion of packages/pipeline.  A run reads  *)
(* its watermark, fetches and filters the feed, then upserts batch by      *)
(* batch, one transaction per batch.  Runs are separate processes and      *)
(* share nothing but the store.                                            *)
(***************************************************************************)
batch_size == 10

\* SELECT MAX(updated_at) FROM roadmap_items: NOTIME for the NULL of an empty table
get_last_ingestion_time(items) ==
  IF DOMAIN items = {} THEN NOTIME
  ELSE CHOOSE m \in {items[i].updated_at : i \in DOMAIN items} :
         \A i \in DOMAIN items : items[i].updated_at <= m

\* raw items the feed may carry
FeedItems ==
  {RawItem(1, "v2", IsoZ(t), Iso(0), {}) : t \in Instants}
  \cup
  {RawItem(2, "v2", BadDate, Iso(0), {}),
   RawItem(2, "v2", "", Iso(MaxTime + 1), {}),
   RawItem(2, "v2", "", Iso(0), {"modified"}),
   RawItem(2, "v2", "", "", {"modified", "created"}),
   RawItem(0, "v2", Iso(2), Iso(0), {"id", "tagsContainer"}),
   [RawItem(2, "v2", "", "", {}) EXCEPT !.null = {"modified", "created"}],
   RawItem(2, "v2", NonString, Iso(0), {}),
   [RawItem(2, "v2", Iso(2), Iso(0), {}) EXCEPT !.null = {"tagsContainer"}],
   [RawItem(2, "v2", Iso(2), Iso(0), {}) EXCEPT !.null = {"products"}]}

RECURSIVE SeqsUpTo(_, _)
\* the sequences over S of length at most n
SeqsUpTo(S, n) ==
  IF n = 0 THEN {<<>>}
  ELSE SeqsUpTo(S, n - 1) \cup
       {Append(q, x) : q \in {r \in SeqsUpTo(S, n - 1) : Len(r) = n - 1}, x \in S}

\* what response.json() may hold
Feeds == SeqsUpTo(FeedItems, MaxFeedLen)

\* ingestion.fetch_roadmap_items: the feed, or [] for a RequestException
fetch_roadmap_items(ok, feed) == IF ok THEN feed ELSE <<>>

\* what run_ingestion hands back: it has no return value on any path
ReturnsNone == [kind |-> "None", success |-> FALSE, items_processed |-> NOINT,
                message |-> NULL]
Pending == [kind |-> "pending", success |-> FALSE, items_processed |-> NOINT,
            message |-> NULL]
Propagates == [kind |-> "raised", success |-> FALSE, items_processed |-> NOINT,
               message |-> NULL]

\* the ids of the parsed items, in order
IdsOf(parsed) == [i \in 1..Len(parsed) |-> parsed[i].id]

\* a run that reads the watermark whatever full_sync says
WatermarkIgnoringFullSync(full_sync, items) == get_last_ingestion_time(items)

\* last_ingestion = None if full_sync else get_last_ingestion_time()
Watermark(full_sync, items) ==
  IF full_sync THEN NOTIME ELSE get_last_ingestion_time(items)

\* feed items of an ingestion run: older than every watermark, newer than
\* every watermark with several products and platforms, equal to a stored row,
\* and without an id
OldItem == RawItem(1, "v2", IsoZ(0), Iso(0), {})
NewItem ==
  [RawItem(2, "v2", IsoZ(MaxTime + 1), Iso(0), {})
     EXCEPT !.products = <<"Teams", "Outlook">>, !.platforms = <<"Web", "iOS">>]
SameItem == RawItem(1, "v1", IsoZ(0), Iso(0), {})
NoIdItem == RawItem(0, "v2", Iso(MaxTime + 1), Iso(0), {"id", "tagsContainer"})
\* an item whose id is 0, modified one instant after the first run may begin
ZeroIdItem == RawItem(0, "v3", IsoZ(3), Iso(0), {})

\* a feed longer than a batch: every fourth item is newer than every watermark
LongFeed ==
  [i \in 1..LongFeedLen |->
     RawItem(i, BulkTitle, IF i % 4 = 0 THEN IsoZ(MaxTime + 1) ELSE IsoZ(0), Iso(0), {})]

\* what response.json() may hold for a run
RunFeeds ==
  {<<>>, <<NewItem>>, <<SameItem>>, <<OldItem, NewItem>>, <<NoIdItem, ZeroIdItem>>,
   LongFeed}

\* a slice that takes one item too many
BatchOneTooMany(parsed_items, i) ==
  SubSeq(parsed_items, i + 1, Min(i + batch_size + 1, Len(parsed_items)))

\* batch = parsed_items[i:i + batch_size]
Batch(parsed_items, i) ==
  SubSeq(parsed_items, i + 1, Min(i + batch_size, Len(parsed_items)))

\* is the run over
Over(run) == run.pc \in {"done", "raised"}

\* MAX(updated_at) of a store with rows
MaxUpdatedAt(items) ==
  CHOOSE m \in {items[i].updated_at : i \in DOMAIN items} :
    \A i \in DOMAIN items : items[i].updated_at <= m

\* a worker that begins only when no earlier run is under way
StartsAlone(rs) == \A k \in 1..Len(rs) : Over(rs[k])

\* run_ingestion takes no lock and keeps no record of a run under way: a run
\* begins whatever the earlier runs are doing
MayStart(rs) == TRUE

\* run_ingestion up to its batch loop: init_db, the watermark, the fetch, the
\* filter and the parse; the run is over when nothing is left to process
BeginRun ==
  /\ Len(runs) < MaxRuns
  /\ MayStart(runs)
  /\ \E full_sync \in BOOLEAN, ok \in BOOLEAN, feed \in RunFeeds :
       /\ ok \/ feed = <<>>
       /\ LET since == Watermark(full_sync, roadmap_items)
              raw_items == fetch_roadmap_items(ok, feed)
              items_to_process == IF raw_items = <<>> THEN <<>>
                                  ELSE filter_new_items(raw_items, since)
              parsed_items == ParseAll(items_to_process)
              raised == \/ filter_error(raw_items, since) # NULL
                        \/ \E i \in DOMAIN items_to_process :
                             parse_error(items_to_process[i]) # NULL
              over == parsed_items = <<>>
          IN runs' = Append(runs,
               [full_sync |-> full_sync, since |-> since, fetch_ok |-> ok,
                raw_items |-> raw_items, items_to_process |-> items_to_process,
                parsed_items |-> parsed_items, i |-> 0, total_ingested |-> 0,
                embed_calls |-> 0, upserted |-> <<>>, batches |-> <<>>,
                upsert_calls |-> 0,
                rows_before |-> roadmap_items, rows_committed |-> roadmap_items,
                max_after |-> NOTIME,
                fetched_at |-> now,
                t |-> now, alone |-> \A k \in 1..Len(runs) : Over(runs[k]),
                pc |-> IF raised THEN "raised" ELSE IF over THEN "done" ELSE "upsert",
                result |-> IF raised THEN Propagates
                           ELSE IF over THEN ReturnsNone ELSE Pending])
  /\ UNCHANGED <<customers, customer_seq, roadmap_items, now, stack, outcome,
                 last_dispatch, last_return, filter_call, upsert_log, search_call, last_mcp, added, updaters>>

\* one pass of the batch loop: upsert_roadmap_items on parsed_items[i:i+batch_size],
\* whose exception leaves run_ingestion; after the last batch the run returns.
\* The transaction began at some instant ts since the run's previous step, and
\* its commit is later than ts
UpsertBatchOf(r) ==
    /\ runs[r].pc = "upsert"
    /\ now <= MaxTime
    /\ LET run == runs[r]
           batch == Batch(run.parsed_items, run.i)
           last == run.i + batch_size >= Len(run.parsed_items)
       IN \E ts \in run.t..now :
          \E u \in upsert_roadmap_items(batch, roadmap_items, ts) :
            /\ roadmap_items' = u.items
            /\ upsert_log' = LogUpserts(upsert_log, batch, u.embeddings)
            /\ now' = IF u.raised THEN now ELSE now + 1
            /\ runs' = [runs EXCEPT ![r] =
                 IF u.raised
                   THEN [run EXCEPT !.embed_calls = @ + u.embed_calls,
                                    !.upsert_calls = @ + 1,
                                    !.pc = "raised", !.result = Propagates]
                   ELSE [run EXCEPT !.embed_calls = @ + u.embed_calls,
                                    !.upsert_calls = @ + 1,
                                    !.total_ingested = @ + u.count,
                                    !.upserted = @ \o IdsOf(batch),
                                    !.batches = Append(@, Len(batch)),
                                    !.rows_committed = u.items,
                                    !.max_after = MaxUpdatedAt(u.items),
                                    !.t = now + 1,
                                    !.i = @ + batch_size,
                                    !.pc = IF last THEN "done" ELSE "upsert",
                                    !.result = IF last THEN ReturnsNone ELSE Pending]]
    /\ UNCHANGED <<customers, customer_seq, stack, outcome, last_dispatch,
                   last_return, filter_call, search_call, last_mcp, added, updaters>>

UpsertBatch == \E r \in 1..Len(runs) : UpsertBatchOf(r)

\* the store's clock advances
Tick ==
  /\ now < MaxTime
  /\ now' = now + 1
  /\ UNCHANGED <<customers, customer_seq, roadmap_items, stack, outcome,
                 last_dispatch, last_return, runs, filter_call, upsert_log, search_call, last_mcp, added, updaters>>

\* a store whose rows earlier runs refreshed at different instants
SeedStoreMixed == UpsertRow(SeedStoreAt(0), SeedItems[1], SeedEmbeddings[1], 1)

InitIngest ==
  /\ customers = <<>>
  /\ customer_seq = 0
  /\ roadmap_items \in {<<>>, SeedStoreAt(1), SeedStoreMixed}
  /\ now = 2
  /\ stack = <<>>
  /\ outcome = Idle
  /\ last_dispatch = NoDispatch
  /\ last_return = NoReturn
  /\ runs = <<>>
  /\ filter_call = NoFilterCall
  /\ upsert_log = IF roadmap_items = <<>> THEN <<>> ELSE SeedLog
  /\ search_call = NoSearchCall
  /\ last_mcp = NoMcpCall
  /\ added = <<>>
  /\ updaters = NoUpdaters

NextIngest == BeginRun \/ UpsertBatch \/ Tick

SpecIngest == InitIngest /\ [][NextIngest]_vars

(***************************************************************************)
(* filter_new_items on its own: a call with any feed and any watermark.    *)
(***************************************************************************)
\* the watermarks a caller may pass: None or an instant of the store clock
Watermarks == {NOTIME} \cup (0..MaxTime)

\* filter_new_items(raw_items, since) runs to its return or to its exception
FilterNewItems ==
  /\ ~filter_call.returned
  /\ filter_call.raised = NULL
  /\ filter_call' =
       IF filter_error(filter_call.raw_items, filter_call.since) # NULL
         THEN [filter_call EXCEPT
                 !.raised = filter_error(filter_call.raw_items, filter_call.since)]
         ELSE [filter_call EXCEPT
                 !.returned = TRUE,
                 !.new_items = filter_new_items(filter_call.raw_items,
                                                filter_call.since)]
  /\ UNCHANGED <<customers, customer_seq, roadmap_items, now, stack, outcome,
                 last_dispatch, last_return, runs, upsert_log, search_call, last_mcp, added, updaters>>

\* [parse_roadmap_item(item) for item in items_to_process] on the items the
\* filter returned: the list, or the exception of the first item that has one
ParseItems ==
  /\ filter_call.returned
  /\ ~filter_call.parsed
  /\ filter_call.raised = NULL
  /\ LET items == filter_call.new_items
         bad == {i \in DOMAIN items : parse_error(items[i]) # NULL}
         first == CHOOSE i \in bad : \A j \in bad : i <= j
     IN filter_call' =
          IF bad # {}
            THEN [filter_call EXCEPT !.raised = parse_error(items[first])]
            ELSE [filter_call EXCEPT !.parsed = TRUE,
                                     !.parsed_items = ParseAll(items)]
  /\ UNCHANGED <<customers, customer_seq, roadmap_items, now, stack, outcome,
                 last_dispatch, last_return, runs, upsert_log, search_call,
                 last_mcp, added, updaters>>

InitFilter ==
  /\ customers = <<>>
  /\ customer_seq = 0
  /\ roadmap_items = <<>>
  /\ now = 1
  /\ stack = <<>>
  /\ outcome = Idle
  /\ last_dispatch = NoDispatch
  /\ last_return = NoReturn
  /\ runs = <<>>
  /\ \E raw_items \in Feeds, since \in Watermarks :
       filter_call = [NoFilterCall EXCEPT !.raw_items = raw_items, !.since = since]
  /\ upsert_log = <<>>
  /\ search_call = NoSearchCall
  /\ last_mcp = NoMcpCall
  /\ added = <<>>
  /\ updaters = NoUpdaters

NextFilter == FilterNewItems \/ ParseItems

SpecFilter == InitFilter /\ [][NextFilter]_vars

(***************************************************************************)
(* Searches of the roadmap: database.search_roadmap and the db_mcp tool.   *)
(***************************************************************************)
\* the embeddings three stored rows may carry
SearchStores ==
  {<<>>} \cup
  {UpsertRow(UpsertRow(UpsertRow(<<>>, SeedItems[1], e1, 0), SeedItems[2], e2, 0),
             parse_roadmap_item([NewItem EXCEPT !.id = 3]), e3, 1) :
   e1 \in Vectors, e2 \in Vectors, e3 \in Vectors}

\* the filter_products lists a caller may pass
ProductFilters == {{}, {"teams"}, {"Outlook"}, {"ios"}, {"zz", "Outlook"}}

\* database.search_roadmap(query, ..., n_results, filter_products)
SearchRoadmap ==
  /\ search_call.tool = "database"
  /\ ~search_call.returned
  /\ \/ \E ids \in search_roadmap(search_call.query_embedding, search_call.n_results,
                                   search_call.filter_products, roadmap_items) :
          search_call' = [search_call EXCEPT
                            !.returned = TRUE,
                            !.rows = SearchItems(ids, search_call.query_embedding,
                                                 roadmap_items)]
     \/ search_call' = [search_call EXCEPT !.returned = TRUE, !.raised = TRUE]
  /\ UNCHANGED <<customers, customer_seq, roadmap_items, now, stack, outcome,
                 last_dispatch, last_return, runs, filter_call, upsert_log, last_mcp, added, updaters>>

\* the db_mcp tool search_roadmap(query, n_results)
McpSearchRoadmap ==
  /\ search_call.tool = "db_mcp"
  /\ ~search_call.returned
  /\ \E o \in mcp_search_roadmap(search_call.query_embedding, search_call.n_results,
                                  roadmap_items) :
       search_call' = [search_call EXCEPT !.returned = TRUE, !.rows = o.rows,
                                          !.text = o.text]
  /\ UNCHANGED <<customers, customer_seq, roadmap_items, now, stack, outcome,
                 last_dispatch, last_return, runs, filter_call, upsert_log, last_mcp, added, updaters>>

InitSearch ==
  /\ customers = <<>>
  /\ customer_seq = 0
  /\ roadmap_items \in SearchStores
  /\ now = 2
  /\ stack = <<>>
  /\ outcome = Idle
  /\ last_dispatch = NoDispatch
  /\ last_return = NoReturn
  /\ runs = <<>>
  /\ filter_call = NoFilterCall
  /\ upsert_log = <<>>
  /\ \E tool \in {"database", "db_mcp"}, q \in Vectors, n \in 0..MaxResults,
        F \in ProductFilters :
       /\ tool = "db_mcp" => F = {}
       /\ search_call = [NoSearchCall EXCEPT !.tool = tool, !.query_embedding = q,
                                             !.n_results = n, !.filter_products = F]
  /\ last_mcp = NoMcpCall
  /\ added = <<>>
  /\ updaters = NoUpdaters

NextSearch == SearchRoadmap \/ McpSearchRoadmap

SpecSearch == InitSearch /\ [][NextSearch]_vars

(***************************************************************************)
(* Properties of the ingestion worker.                                     *)
(***************************************************************************)
\* the timestamp text of a raw item: `modified`, or `created` only when
\* `modified` is absent, null or empty; NULL when the item carries neither
TimestampText(item) ==
  IF "modified" \notin item.missing \cup item.null /\ item.modified # ""
    THEN item.modified
  ELSE IF "created" \notin item.missing \cup item.null /\ item.created # ""
    THEN item.created
  ELSE NULL

\* the instants a timestamp text denotes: none when it cannot be parsed
InstantsOf(text) == {t \in Instants : text \in {Iso(t), IsoZ(t)}}

\* is the item to be kept under the watermark W
KeptUnder(item, W) ==
  \/ W = NOTIME
  \/ /\ TimestampText(item) # NULL
     /\ \/ InstantsOf(TimestampText(item)) = {}
        \/ \E t \in InstantsOf(TimestampText(item)) : t > W

\* C8: filter_new_items(raw_items, W) keeps a raw item if and only if W is
\* None, or its timestamp (modified, else created when modified is absent or
\* empty) is strictly later than W, or that timestamp text cannot be parsed;
\* the kept items are in feed order.
C8_FilterNewItems ==
  /\ filter_call.returned =>
       filter_call.new_items =
         SelectSeq(filter_call.raw_items,
                   LAMBDA item : KeptUnder(item, filter_call.since))
  /\ \A r \in 1..Len(runs) :
       runs[r].raw_items # <<>> =>
         runs[r].items_to_process =
           SelectSeq(runs[r].raw_items, LAMBDA item : KeptUnder(item, runs[r].since))

\* a returned call with a watermark W whose feed holds an item modified at W,
\* dropped, followed by an item modified at W + 1, kept
C8_Witness ==
  /\ filter_call.returned
  /\ filter_call.since # NOTIME
  /\ Len(filter_call.raw_items) = 2
  /\ filter_call.raw_items[1].modified = IsoZ(filter_call.since)
  /\ filter_call.raw_items[2].modified = IsoZ(filter_call.since + 1)
  /\ filter_call.new_items = <<filter_call.raw_items[2]>>

\* C9: the watermark of a run is None when full_sync is true and otherwise
\* max(updated_at) over the stored rows, None when there are none; a run with
\* full_sync, or on an empty store, processes every item of the fetched feed
\* and, when it completes, has upserted every one of them.
C9_WatermarkAndFullSync ==
  \A r \in 1..Len(runs) :
    LET run == runs[r]
        rows == run.rows_before
        feed_ids == IdsOf(ParseAll(run.raw_items))
    IN /\ run.full_sync => run.since = NOTIME
       /\ ~run.full_sync /\ DOMAIN rows = {} => run.since = NOTIME
       /\ ~run.full_sync /\ DOMAIN rows # {} =>
            /\ \E i \in DOMAIN rows : rows[i].updated_at = run.since
            /\ \A i \in DOMAIN rows : rows[i].updated_at <= run.since
       /\ run.full_sync \/ DOMAIN rows = {} =>
            /\ run.items_to_process = run.raw_items
            /\ run.pc = "done" =>
                 /\ run.upserted = feed_ids
                 /\ \A k \in 1..Len(feed_ids) : feed_ids[k] \in DOMAIN roadmap_items

\* a completed full-sync run over a stocked store whose two-item feed starts
\* with an item older than every stored row
C9_Witness ==
  \E r \in 1..Len(runs) :
    /\ runs[r].full_sync
    /\ runs[r].pc = "done"
    /\ DOMAIN runs[r].rows_before # {}
    /\ Len(runs[r].raw_items) = 2
    /\ runs[r].raw_items[1].modified = IsoZ(0)
    /\ Len(runs[r].upserted) = 2

\* C10: a run whose feed fetch failed returns a result with success = false,
\* items_processed = 0 and an error message, raises nothing, makes no
\* embedding call and leaves every stored row unchanged.
C10_FetchFailureResult ==
  \A r \in 1..Len(runs) :
    ~runs[r].fetch_ok =>
      /\ runs[r].result.kind = "dict"
      /\ runs[r].result.success = FALSE
      /\ runs[r].result.items_processed = 0
      /\ runs[r].result.message # NULL
      /\ runs[r].embed_calls = 0
      /\ roadmap_items = runs[r].rows_before

\* ids of the items of a run's feed that pass the incremental filter, in feed order
ExpectedIds(run) ==
  IdsOf(ParseAll(SelectSeq(run.raw_items, LAMBDA item : KeptUnder(item, run.since))))

\* C11: for a feed in which n items pass the incremental filter, a run upserts
\* each of those n items exactly once, in feed order, in ceil(n/10) consecutive
\* batches of at most 10 items, every batch but the last holding exactly 10,
\* and the count it reports is n: at every point of a run the upserted items
\* are the first ones of that order, batch k holds min(10, n - 10(k-1)) items
\* and the count is the number of items upserted so far; a finished run has
\* upserted all n.
C11_BatchedUpserts ==
  \A r \in 1..Len(runs) :
    LET run == runs[r]
        ids == ExpectedIds(run)
        n == Len(ids)
    IN /\ Len(run.upserted) <= n
       /\ run.upserted = SubSeq(ids, 1, Len(run.upserted))
       /\ \A k \in 1..Len(run.batches) :
            run.batches[k] = Min(10, n - 10 * (k - 1))
       /\ Len(run.upserted) = Min(n, 10 * Len(run.batches))
       /\ run.total_ingested = Len(run.upserted)
       /\ run.pc = "done" =>
            /\ run.upserted = ids
            /\ Len(run.batches) = (n + 9) \div 10
            /\ run.total_ingested = n

\* a finished incremental run over a feed of 12 items of which 3 are newer than
\* the watermark: 3 upserts in a single batch and a reported count of 3
C11_Witness ==
  \E r \in 1..Len(runs) :
    /\ runs[r].pc = "done"
    /\ runs[r].since # NOTIME
    /\ Len(runs[r].raw_items) = 12
    /\ Len(runs[r].items_to_process) = 3
    /\ runs[r].upserted = <<4, 8, 12>>
    /\ runs[r].batches = <<3>>
    /\ runs[r].total_ingested = 3

\* C12: after any sequence of upsert_roadmap_items calls the table holds
\* exactly one row per distinct id ever upserted, and that row's title,
\* description, status, release_date, products, platforms, cloud_instances,
\* release_phase, document and embedding are those of the most recent upsert
\* of that id; upserting the same item again leaves them as they are.
C12_UpsertIdempotent ==
  /\ DOMAIN roadmap_items = DOMAIN upsert_log
  /\ \A id \in DOMAIN upsert_log :
       LET row == roadmap_items[id]
           item == upsert_log[id].item
       IN /\ row.title = item.title
          /\ row.description = item.description
          /\ row.status = item.status
          /\ row.release_date = item.public_disclosure_date
          /\ row.products = JoinSeq(item.products, ",")
          /\ row.platforms = JoinSeq(item.platforms, ",")
          /\ row.cloud_instances = JoinSeq(item.cloud_instances, ",")
          /\ row.release_phase = item.release_phase
          /\ row.document = BuildDocument(item)
          /\ row.embedding = upsert_log[id].embedding

\* a run has upserted, over the row of an id that an earlier run left, an item
\* of another title and an embedding other than the stored one
C12_Witness ==
  \E r \in 1..Len(runs) :
    /\ 1 \in DOMAIN runs[r].rows_before
    /\ runs[r].rows_before[1].title = "v1"
    /\ runs[r].upserted = <<1, 2>>
    /\ roadmap_items[1].title = "v2"
    /\ roadmap_items[1].embedding # runs[r].rows_before[1].embedding
    /\ DOMAIN roadmap_items = {1, 2}

\* every run began after the runs before it were over
RunsInSequence == \A r \in 1..Len(runs) : runs[r].alone

C14_PartialResult ==
  \A r \in 1..Len(runs) :
    runs[r].pc = "raised" =>
      /\ \A k \in 1..Len(runs[r].upserted) : runs[r].upserted[k] \in DOMAIN roadmap_items
      /\ runs[r].upsert_calls = Len(runs[r].batches) + 1
      /\ runs[r].result.kind = "dict"
      /\ runs[r].result.items_processed = runs[r].total_ingested

\* the pieces of a stored products or platforms column, as the document lists them
Respaced(pieces) == [i \in 1..Len(pieces) |-> IF pieces[i] = "," THEN ", " ELSE pieces[i]]

\* the document text built from the columns of a stored row
DocumentOfRow(row) ==
  <<row.title, "\n\n", row.description, "\n\nStatus: ", row.status, "\nProducts: ">>
  \o Respaced(row.products) \o <<"\nPlatforms: ">> \o Respaced(row.platforms)

\* C15: in every reachable state each stored row's document is the text built
\* from that row's title, description, status, products and platforms; every
\* upsert rebuilds the document and makes exactly one document embedding call
\* per item, also for an item whose content is unchanged, so the number of
\* embedding calls of a run is the number of items it upserts; a run that an
\* embedding failure aborts has made, beyond those, only the calls of the
\* batch that failed.
C15_DocumentAndEmbedding ==
  /\ \A id \in DOMAIN roadmap_items :
       roadmap_items[id].document = DocumentOfRow(roadmap_items[id])
  /\ \A r \in 1..Len(runs) :
       /\ runs[r].pc # "raised" => runs[r].embed_calls = Len(runs[r].upserted)
       /\ runs[r].pc = "raised" =>
            /\ runs[r].embed_calls > Len(runs[r].upserted)
            /\ runs[r].embed_calls <= Len(runs[r].upserted) + batch_size

\* a finished run has upserted an item equal to the stored row of its id and
\* made an embedding call for it, and a row of several products and platforms
\* is stored
C15_Witness ==
  /\ \E r \in 1..Len(runs) :
       /\ runs[r].pc = "done"
       /\ runs[r].upserted = <<1>>
       /\ 1 \in DOMAIN runs[r].rows_before
       /\ runs[r].rows_before[1].document = BuildDocument(runs[r].parsed_items[1])
       /\ runs[r].embed_calls = 1
  /\ \E id \in DOMAIN roadmap_items : Len(roadmap_items[id].products) > 1

\* 25 times the cosine distance of a stored row to the query of a call
DistanceOf(id, call) == CosDist25(roadmap_items[id].embedding, call.query_embedding)

\* C16: search_roadmap(query, k) returns at most k results, exactly min(k, N)
\* of the N stored items when no filter is given, ordered by non-decreasing
\* cosine distance to the query, and no omitted item is closer than a returned
\* one; the distance a result carries is that of its row, and the relevance
\* the db_mcp tool reports is 1 - distance.
C16_NearestFirst ==
  (search_call.returned /\ ~search_call.raised /\ search_call.text # "Error searching roadmap: ") =>
    LET rows == search_call.rows
        returned == {rows[k].id : k \in 1..Len(rows)}
    IN /\ Len(rows) <= search_call.n_results
       /\ search_call.filter_products = {} =>
            Len(rows) = Min(search_call.n_results, Cardinality(DOMAIN roadmap_items))
       /\ returned \subseteq DOMAIN roadmap_items
       /\ Cardinality(returned) = Len(rows)
       /\ \A a, b \in 1..Len(rows) :
            a < b => DistanceOf(rows[a].id, search_call) <= DistanceOf(rows[b].id, search_call)
       /\ search_call.filter_products = {} =>
            \A i \in returned, j \in DOMAIN roadmap_items \ returned :
              DistanceOf(i, search_call) <= DistanceOf(j, search_call)
       /\ \A k \in 1..Len(rows) :
            IF search_call.tool = "db_mcp"
              THEN rows[k].relevance = 25 - DistanceOf(rows[k].id, search_call)
              ELSE rows[k].distance = DistanceOf(rows[k].id, search_call)

\* the db_mcp tool has returned 2 of 3 stored items at different distances,
\* the nearer first, and has left out the farthest
C16_Witness ==
  /\ search_call.tool = "db_mcp"
  /\ search_call.returned
  /\ search_call.n_results = 2
  /\ Cardinality(DOMAIN roadmap_items) = 3
  /\ Len(search_call.rows) = 2
  /\ search_call.rows[1].relevance > search_call.rows[2].relevance
  /\ \E j \in DOMAIN roadmap_items :
       /\ j \notin {search_call.rows[1].id, search_call.rows[2].id}
       /\ 25 - DistanceOf(j, search_call) < search_call.rows[2].relevance

\* the stored items whose products or platforms text holds a term of the filter
MatchesFilter(call) ==
  {i \in DOMAIN roadmap_items :
     \E p \in call.filter_products :
       \/ ColumnILike(roadmap_items[i].products, p)
       \/ ColumnILike(roadmap_items[i].platforms, p)}

\* C17: with filters given, search_roadmap returns only items whose stored
\* products or platforms text contains at least one filter term as a
\* case-insensitive substring, and returns the k nearest of the items that
\* match, an item that matches through its platforms being eligible.
C17_ProductsOrPlatforms ==
  (search_call.returned /\ ~search_call.raised /\ search_call.filter_products # {}) =>
    LET rows == search_call.rows
        returned == {rows[k].id : k \in 1..Len(rows)}
        match == MatchesFilter(search_call)
    IN /\ returned \subseteq match
       /\ Len(rows) = Min(search_call.n_results, Cardinality(match))
       /\ \A i \in returned, j \in match \ returned :
            DistanceOf(i, search_call) <= DistanceOf(j, search_call)

\* the step is a dispatch, by a running loop, of one of `names` of `agents`
DispatchOf(agents, names) ==
  /\ stack # <<>>
  /\ last_dispatch'.kind = "tool"
  /\ last_dispatch'.agent \in agents
  /\ last_dispatch'.name \in names

\* C18: roadmap_items rows are written only by the ingestion's upsert and
\* customers rows only by the customer tool handlers add, update and delete:
\* every step that changes roadmap_items is a refresh of the roadmap data and
\* every step that changes customers is a dispatch of add_customer,
\* update_customer or delete_customer by the customer dispatcher; so the
\* searches, the roadmap and impact tool handlers, the db_mcp tools and the
\* customer read tools leave both tables unchanged, and no customer handler
\* changes roadmap_items.
C18_SoleWriters ==
  [][/\ roadmap_items' # roadmap_items =>
          /\ DispatchOf(OrchestratorAgents, {"refresh_roadmap_data"})
          /\ customers' = customers
     /\ customers' # customers =>
          DispatchOf({"customer"}, {"add_customer", "update_customer", "delete_customer"})]_vars

\* after a request that added a customer over a store with roadmap rows, the
\* db_mcp tool get_roadmap_item has returned a row, and both tables are there
C18_Witness ==
  /\ last_mcp.name = "get_roadmap_item"
  /\ last_mcp.result = <<"1", "v1", "Rolling out">>
  /\ last_dispatch.kind = "tool"
  /\ last_dispatch.name = "add_customer"
  /\ ~last_dispatch.store_unchanged
  /\ customers # <<>>
  /\ roadmap_items # <<>>

\* the call the customer loop on top of the stack is about to dispatch
CustomerCall == Top.response.parts[InspectedIndex(Top.response.parts)]

\* the customer loop is about to dispatch an add_customer whose arguments bind
\* and whose name is that of a stored customer
AddingDuplicate ==
  /\ stack # <<>>
  /\ Top.agent = "customer"
  /\ LoopDispatches(Top)
  /\ CustomerCall.name = "add_customer"
  /\ ~BindFails(CustomerCall.args, {"name", "description", "products_used"}, AddParams)
  /\ \E i \in DOMAIN customers : customers[i].name = CustomerCall.args.name

\* C19: in every reachable state no two customers rows share a name; an
\* add_customer whose name is that of a stored customer fails, is reported by
\* the add_customer tool as a failure string, is not retried (one INSERT is
\* attempted) and leaves the stored rows, count and contents, unchanged.
C19_UniqueNames ==
  /\ [](\A i, j \in DOMAIN customers : i # j => customers[i].name # customers[j].name)
  /\ [][AddingDuplicate =>
          /\ customers' = customers
          /\ customer_seq' = customer_seq + 1
          /\ last_dispatch'.name = "add_customer"
          /\ ~last_dispatch'.raised
          /\ last_dispatch'.result = <<CROSS, "Error adding customer: ", "IntegrityError">>]_vars

\* an add_customer under the name of a stored customer was answered with the
\* failure string and the rows are as before
C19_Witness ==
  /\ last_dispatch.kind = "tool"
  /\ last_dispatch.agent = "customer"
  /\ last_dispatch.name = "add_customer"
  /\ last_dispatch.result = <<CROSS, "Error adding customer: ", "IntegrityError">>
  /\ last_dispatch.store_unchanged
  /\ \E i \in DOMAIN customers : customers[i].name = last_dispatch.args.name

\* what get_customer shows of a customer stored under `id` with the values
\* `given` to add_customer: priority 'medium' and no notes when none was given
DetailsOfAdded(id, given) ==
  <<"**Customer: ", given.name, "**", "- ID: ", IntStr(id),
    "- Description: ", given.description,
    "- Products Used: ", given.products_used,
    "- Priority: ", IF given.priority = ABSENT THEN "medium" ELSE given.priority,
    "- Notes: ", IF given.notes \in {ABSENT, ""} THEN "None" ELSE given.notes>>

\* the customer loop is about to dispatch an add_customer whose arguments bind
\* and whose name no stored customer has
AddingNew ==
  /\ stack # <<>>
  /\ Top.agent = "customer"
  /\ LoopDispatches(Top)
  /\ CustomerCall.name = "add_customer"
  /\ ~BindFails(CustomerCall.args, {"name", "description", "products_used"}, AddParams)
  /\ \A i \in DOMAIN customers : customers[i].name # CustomerCall.args.name

UpdateColumns == {"name", "description", "products_used", "priority", "notes"}

\* the arguments of the update_customer_tool calls that run concurrently
UpdateArgs ==
  {[NoArgs EXCEPT !.customer_id = 1, !.priority = "low"],
   [NoArgs EXCEPT !.customer_id = 1, !.priority = "high", !.notes = "n"],
   [NoArgs EXCEPT !.customer_id = 1, !.name = "Zed"],
   [NoArgs EXCEPT !.customer_id = 1, !.name = "Acme Ltd", !.description = "d2"],
   [NoArgs EXCEPT !.customer_id = 1, !.name = "Bolt"],
   [NoArgs EXCEPT !.customer_id = 1, !.notes = "", !.description = "d3"],
   [NoArgs EXCEPT !.customer_id = 1]}

NewUpdate(args) == [args |-> args, pc |-> "start", raised |-> FALSE, result |-> <<>>,
                    row |-> NULL]

\* cursor.execute(UPDATE ...): the statement of operation p
ExecuteUpdate(p) ==
  LET op == updaters.ops[p]
      locks == /\ op.args.customer_id \in DOMAIN customers
               /\ \E k \in UpdateColumns : TruthyStr(op.args[k])
  IN /\ op.pc = "start"
     /\ locks => updaters.lock = 0
     /\ \E o \in update_customer_tool(op.args, customers, customer_seq) :
          updaters' =
            IF o.raised
              THEN [updaters EXCEPT !.ops[p].pc = "done", !.ops[p].raised = TRUE,
                                    !.ops[p].result = o.result]
            ELSE IF ~locks
              THEN [updaters EXCEPT !.ops[p].pc = "executed",
                                    !.ops[p].result = o.result]
            ELSE [updaters EXCEPT !.ops[p].pc = "executed",
                                  !.ops[p].result = o.result,
                                  !.ops[p].row = o.customers[op.args.customer_id],
                                  !.lock = p]
     /\ UNCHANGED <<customers, customer_seq, roadmap_items, now, stack, outcome,
                    last_dispatch, last_return, runs, filter_call, upsert_log,
                    search_call, last_mcp, added>>

\* conn.commit() of operation p, and the tool's return
CommitUpdate(p) ==
  LET op == updaters.ops[p]
  IN /\ op.pc = "executed"
     /\ customers' = IF updaters.lock = p
                       THEN [customers EXCEPT ![op.args.customer_id] = op.row]
                       ELSE customers
     /\ updaters' = [updaters EXCEPT !.ops[p].pc = "done",
                                     !.lock = IF updaters.lock = p THEN 0 ELSE @,
                                     !.committed = Append(@, p)]
     /\ UNCHANGED <<customer_seq, roadmap_items, now, stack, outcome,
                    last_dispatch, last_return, runs, filter_call, upsert_log,
                    search_call, last_mcp, added>>

StartUpdate == \E p \in DOMAIN updaters.ops : ExecuteUpdate(p)
FinishUpdate == \E p \in DOMAIN updaters.ops : CommitUpdate(p)

InitUpdate ==
  /\ \E c \in SeedCustomers : customers = c.customers /\ customer_seq = c.customer_seq
  /\ roadmap_items = <<>>
  /\ now = 1
  /\ stack = <<>>
  /\ outcome = Idle
  /\ last_dispatch = NoDispatch
  /\ last_return = NoReturn
  /\ runs = <<>>
  /\ filter_call = NoFilterCall
  /\ upsert_log = <<>>
  /\ search_call = NoSearchCall
  /\ last_mcp = NoMcpCall
  /\ added = <<>>
  /\ \E a \in UpdateArgs, b \in UpdateArgs :
       updaters = [NoUpdaters EXCEPT !.ops = <<NewUpdate(a), NewUpdate(b)>>,
                                     !.before = customers]

NextUpdate == StartUpdate \/ FinishUpdate

SpecUpdate == InitUpdate /\ [][NextUpdate]_vars

\* the columns an operation sets: those given a truthy value
ColumnsSet(op) == {k \in UpdateColumns : TruthyStr(op.args[k])}

\* an operation that updates a stored customer: it sets a column, and the
\* name it gives, if any, is not another customer's
UpdatesStored(op) ==
  /\ op.args.customer_id \in DOMAIN updaters.before
  /\ ColumnsSet(op) # {}
  /\ \A j \in DOMAIN updaters.before :
       j # op.args.customer_id => updaters.before[j].name # op.args.name

\* where operation p stands in the order of the commits
CommitPosition(p) ==
  CHOOSE n \in DOMAIN updaters.committed : updaters.committed[n] = p

C22_RunsOverlap ==
  /\ Len(runs) < MaxRuns => ENABLED BeginRun
  /\ \A r \in 1..Len(runs), k \in 1..Len(runs) :
       (/\ k # r
        /\ runs[k].pc = "upsert" /\ runs[k].batches # <<>>
        /\ runs[r].pc = "upsert" /\ now <= MaxTime)
       => ENABLED UpsertBatchOf(r)

\* the first run started on an empty store and committed two batches; the
\* second began on the store as the first batch left it, committed a batch of
\* its own before the first run's second commit, and an id was upserted (and
\* so embedded) by both
C22_Witness ==
  /\ Len(runs) = 2
  /\ runs[1].rows_before = <<>>
  /\ Len(runs[1].batches) = 2
  /\ ~runs[2].alone
  /\ DOMAIN runs[2].rows_before = 1..batch_size
  /\ runs[2].batches # <<>>
  /\ runs[2].t < runs[1].t
  /\ \E j \in DOMAIN runs[1].upserted, k \in DOMAIN runs[2].upserted :
       runs[1].upserted[j] = runs[2].upserted[k]
  /\ runs[1].embed_calls > 0 /\ runs[2].embed_calls > 0

\* C23: no raw item is fatal: whatever the shape of the timestamps and of the
\* tag data of the feed's items, filter_new_items and parse_roadmap_item run
\* to their return; a returned filter call kept every item whose timestamp
\* text cannot be parsed, and a parsed item has an empty list for every tag
\* group its raw item lacks
C23_MalformedItemNotFatal ==
  /\ filter_call.raised = NULL
  /\ filter_call.returned =>
       \A i \in DOMAIN filter_call.raw_items :
         LET item == filter_call.raw_items[i]
         IN (TimestampText(item) # NULL /\ InstantsOf(TimestampText(item)) = {})
            => \E k \in DOMAIN filter_call.new_items : filter_call.new_items[k] = item
  /\ filter_call.parsed =>
       \A i \in DOMAIN filter_call.new_items :
         "tagsContainer" \in filter_call.new_items[i].missing =>
           /\ filter_call.parsed_items[i].products = <<>>
           /\ filter_call.parsed_items[i].platforms = <<>>
           /\ filter_call.parsed_items[i].cloud_instances = <<>>

\* C24: the failure of an external call is never a raw fault: no query() is
\* left by the exception of an embedding call or of a model call; the failure
\* comes back inside a string
C24_ExternalFailureContained ==
  outcome.kind = "raised" => outcome.text \notin {"EmbeddingError", "ModelError"}

\* the places in a run's processed items of those without an id or with id 0
ZeroPlaces(run) ==
  {k \in DOMAIN run.items_to_process :
     \/ "id" \in run.items_to_process[k].missing
     \/ run.items_to_process[k].id = 0}

\* C25: parse_roadmap_item gives an item without id the id 0, so that when a
\* run completes, the items without id and those with id 0 share the row 0,
\* which holds the fields of the last of them in feed order as the run's last
\* commit left it, and the run has counted every item it processed
C25_IdlessOntoRowZero ==
  \A r \in 1..Len(runs) :
    LET run == runs[r]
        zero == ZeroPlaces(run)
        last == CHOOSE k \in zero : \A j \in zero : j <= k
    IN /\ \A k \in zero : run.parsed_items[k].id = 0
       /\ (run.pc = "done" /\ run.batches # <<>> /\ zero # {}) =>
            /\ 0 \in DOMAIN run.rows_committed
            /\ run.rows_committed[0].title = run.parsed_items[last].title
            /\ run.rows_committed[0].status = run.parsed_items[last].status
            /\ run.rows_committed[0].products =
                 JoinSeq(run.parsed_items[last].products, ",")
            /\ run.rows_committed[0].document = BuildDocument(run.parsed_items[last])
            /\ \A k \in zero : run.upserted[k] = 0
            /\ run.total_ingested = Len(run.parsed_items)

\* a completed run processed an item without id and then an item with id 0 and
\* a different title: it counted two items and the store gained the one row 0
C25_Witness ==
  \E r \in 1..Len(runs) :
    /\ runs[r].pc = "done"
    /\ Len(runs[r].items_to_process) = 2
    /\ "id" \in runs[r].items_to_process[1].missing
    /\ "id" \notin runs[r].items_to_process[2].missing
    /\ runs[r].items_to_process[2].id = 0
    /\ runs[r].items_to_process[1].title # runs[r].items_to_process[2].title
    /\ runs[r].total_ingested = 2
    /\ DOMAIN runs[r].rows_committed \ DOMAIN runs[r].rows_before = {0}
    /\ runs[r].rows_committed[0].title = runs[r].items_to_process[2].title

\* the query() a function_response of kind `kind` is sent from: the running
\* loop, or for a routed sub-agent's text the orchestrator's loop below it
Sender(kind) == IF kind = "routed" THEN stack[Len(stack) - 1] ELSE Top

\* C26: every function_response a loop sends answers the call in the first
\* part of the reply the loop holds: it carries that call's name and, as its
\* result, what the dispatcher returned for that call's name and arguments;
\* nothing is sent when the dispatcher raised, none is sent without a reply
\* whose first part is a call, and a loop has sent one per dispatched reply
C26_ResponseAnswersFirstCall ==
  /\ [](/\ last_dispatch.sent # NoMessage =>
            /\ ~last_dispatch.raised
            /\ last_dispatch.reply # <<>>
            /\ last_dispatch.reply[1].kind = "call"
            /\ last_dispatch.sent.name = last_dispatch.reply[1].name
            /\ last_dispatch.name = last_dispatch.reply[1].name
            /\ last_dispatch.args = last_dispatch.reply[1].args
            /\ last_dispatch.sent.result = last_dispatch.result
        /\ last_dispatch.raised => last_dispatch.sent = NoMessage
        /\ \A k \in 1..Len(stack) :
             stack[k].sends < CountCap => stack[k].sends = 1 + stack[k].dispatches)
  /\ [][(last_dispatch' # last_dispatch /\ last_dispatch'.sent # NoMessage) =>
          /\ Len(stack) >= (IF last_dispatch'.kind = "routed" THEN 2 ELSE 1)
          /\ FirstIsCall(Sender(last_dispatch'.kind).response.parts)
          /\ last_dispatch'.reply = Sender(last_dispatch'.kind).response.parts
          /\ last_dispatch'.agent = Sender(last_dispatch'.kind).agent]_vars

\* a reply of two function calls was answered with one function_response,
\* naming the first call and carrying the string its dispatch returned
C26_Witness ==
  /\ last_dispatch.kind = "tool"
  /\ last_dispatch.sent # NoMessage
  /\ Len(last_dispatch.reply) = 2
  /\ last_dispatch.reply[2].kind = "call"
  /\ last_dispatch.sent.name = last_dispatch.reply[1].name
  /\ last_dispatch.sent.result # <<>>
  /\ stack # <<>>
  /\ Top.sends = 2

\* C27: a batch is all-or-nothing: a call of upsert_roadmap_items that raises
\* leaves every row of the store, updated_at included, and the run's count as
\* they were, and a call that returns has put every item of its batch into
\* the store in one transaction (one updated_at for all of them)
C27_BatchAllOrNothing ==
  [][\A r \in 1..Len(runs) :
       (Len(runs') = Len(runs) /\ runs[r].pc = "upsert" /\ runs'[r] # runs[r]) =>
         LET batch == Batch(runs[r].parsed_items, runs[r].i)
         IN IF runs'[r].pc = "raised"
              THEN /\ roadmap_items' = roadmap_items
                   /\ runs'[r].upserted = runs[r].upserted
                   /\ runs'[r].total_ingested = runs[r].total_ingested
              ELSE /\ \A k \in DOMAIN batch : batch[k].id \in DOMAIN roadmap_items'
                   /\ \A j \in DOMAIN batch, k \in DOMAIN batch :
                        roadmap_items'[batch[j].id].updated_at =
                          roadmap_items'[batch[k].id].updated_at
                   /\ runs'[r].total_ingested = runs[r].total_ingested + Len(batch)]_vars

\* a run committed its first batch of ten and failed on the second item of
\* its second batch: the store holds neither item of that batch
C27_Witness ==
  \E r \in 1..Len(runs) :
    /\ runs[r].pc = "raised"
    /\ runs[r].batches = <<batch_size>>
    /\ runs[r].embed_calls = batch_size + 2
    /\ Len(runs[r].parsed_items) = batch_size + 2
    /\ \A k \in (batch_size + 1)..(batch_size + 2) :
         runs[r].parsed_items[k].id \notin DOMAIN roadmap_items
    /\ \A k \in 1..batch_size : runs[r].parsed_items[k].id \in DOMAIN roadmap_items

\* C28: re-triggering recovers a failed run: when an incremental run has
\* failed after committing a batch, the next incremental run over the same
\* feed, once completed, has upserted every item the failed run had filtered
\* in and not committed
C28_RetriggerRecovers ==
  \A r \in 1..(Len(runs) - 1) :
    LET failed == runs[r]
        next == runs[r + 1]
    IN (/\ failed.pc = "raised" /\ ~failed.full_sync /\ failed.batches # <<>>
        /\ next.alone /\ ~next.full_sync /\ next.pc = "done"
        /\ next.raw_items = failed.raw_items)
       => \A k \in (Len(failed.upserted) + 1)..Len(failed.parsed_items) :
            \E j \in DOMAIN next.upserted : next.upserted[j] = failed.parsed_items[k].id

\* C29: incremental sync loses no feed update: of two consecutive incremental
\* runs that both complete, the second processes every item of its feed that
\* was modified after the instant the first fetched the feed
C29_NoUpdateLost ==
  \A r \in 1..(Len(runs) - 1) :
    LET prev == runs[r]
        next == runs[r + 1]
    IN (/\ prev.pc = "done" /\ ~prev.full_sync /\ prev.fetch_ok
        /\ next.alone /\ ~next.full_sync /\ next.fetch_ok /\ next.pc = "done")
       => \A k \in DOMAIN next.raw_items :
            (\E t \in InstantsOf(TimestampText(next.raw_items[k])) : t > prev.fetched_at)
            => /\ \E j \in DOMAIN next.items_to_process :
                    next.items_to_process[j] = next.raw_items[k]
               /\ \E j \in DOMAIN next.upserted :
                    next.upserted[j] = parse_roadmap_item(next.raw_items[k]).id

\* C30: with a watermark, filter_new_items drops every raw item that has
\* neither a modified nor a created value (absent, null or empty), so only
\* dated items go on to be parsed; without a watermark (a full sync, or an
\* empty store) it returns every item, the undated ones included
C30_UndatedDropped ==
  /\ filter_call.returned =>
       IF filter_call.since # NOTIME
         THEN \A k \in DOMAIN filter_call.new_items :
                TimestampText(filter_call.new_items[k]) # NULL
         ELSE filter_call.new_items = filter_call.raw_items
  /\ filter_call.parsed =>
       /\ Len(filter_call.parsed_items) = Len(filter_call.new_items)
       /\ filter_call.since # NOTIME =>
            \A k \in DOMAIN filter_call.raw_items :
              TimestampText(filter_call.raw_items[k]) = NULL =>
                \A j \in DOMAIN filter_call.new_items :
                  filter_call.new_items[j] # filter_call.raw_items[k]

\* a call with a watermark on a feed of an item whose modified and created
\* are null and an item modified later than the watermark: the first is
\* dropped, the second kept and parsed
C30_Witness ==
  /\ filter_call.parsed
  /\ filter_call.since # NOTIME
  /\ Len(filter_call.raw_items) = 2
  /\ filter_call.raw_items[1].null = {"modified", "created"}
  /\ TimestampText(filter_call.raw_items[1]) = NULL
  /\ filter_call.new_items = <<filter_call.raw_items[2]>>
  /\ Len(filter_call.parsed_items) = 1

====
